---- MODULE Spec2Model ----
(***************************************************************************)
(* Update engine of the course knowledge base (KengU).                     *)
(*                                                                         *)
(* Spec     : update_knowledge_base runs (agents/scraper_agent/updater.py) *)
(*            over RAGScraper.scrape_all (rag_scraper/scraper.py), with a  *)
(*            shared metadata store and a wall clock.                      *)
(* SpecPool : one parallel dispatcher (rag_scraper/parallel.py): workers,  *)
(*            the task queue, the results queue and the login lock.        *)
(*                                                                         *)
(* Time is counted in hours.                                               *)
(***************************************************************************)
EXTENDS Integers, FiniteSets, Sequences, TLC

\* updater.py:22-23
MOODLE_UPDATE_THRESHOLD == 24
EXAMBASE_UPDATE_THRESHOLD == 720

\* ---- bounds of the model ------------------------------------------------
MaxTicks == 1
MaxWorkers == 2
MaxTasks == 2
MaxRuns == 2
MaxLinks == 2
MaxPapers == 2
MaxLines == 4
MaxFiles == 2
MaxChunks == 3
MaxTokens == 3
MaxFragLen == 7
MaxIter == 8
MaxName == 3
SentenceLens == {1, 3, 7}

\* ---- the world of the update runs ---------------------------------------
Users == {1, 2}
Courses == {1, 2}
Sources == {"moodle", "exambase"}

\* the clock value of the initial state; stored timestamps lie in its past
StartClock == EXAMBASE_UPDATE_THRESHOLD

\* the courses of each user on the LMS (and, once stored, the user_courses
\* rows of the metadata store): both users share course 1
Enrolled(u) == IF u = 1 THEN {1, 2} ELSE {1}

\* re.match(r"^([A-Z]+\d+)", course_name): course 1 is "COMP7103 ...",
\* course 2 has a title without a leading course code
HasCourseCode(c) == c = 1

\* a nullable DATETIME column: {} is NULL, {t} is the time t
None == {}
Some(t) == {t}
Val(ts) == CHOOSE t \in ts : TRUE

\* a downloaded file is identified by its course folder and its source
File(c, s) == <<c, s>>

VARIABLES
    clock,            \* datetime.now()
    db,               \* courses table: db[c].moodle, db[c].exambase
    disk,             \* files present under knowledge_base/
    pc,               \* position of update_knowledge_base per user
    courses,          \* result of _get_user_courses
    now,              \* current_time of _get_courses_need_update
    seen,             \* the timestamps _get_courses_need_update read
    moodle_courses,   \* due list for Moodle
    exambase_courses, \* due list for Exambase
    mpc,              \* position of MoodleThread
    epc,              \* position of ExambaseThread
    mstats,           \* moodle_stats
    estats,           \* exambase_stats
    mLogged,          \* the open Moodle browser is logged in
    mProcessed,       \* courses the Moodle scrape iterated over
    eProcessed,       \* courses the Exambase scrape searched
    newFiles,         \* files written to disk by this run
    success,          \* stats["success"]
    current_time,     \* current_time of _update_timestamps
    mTodo,            \* Moodle timestamps still to write
    eTodo,            \* Exambase timestamps still to write
    written,          \* <<course, source, value>> written by this run
    ingested,         \* files handed to the ingestion pipeline by this run
    user_courses,     \* user_courses table: the course rows of each user
    runs,             \* how many calls of update_knowledge_base each user has made
    prev,             \* what the user's previous run saw and returned
    logins,           \* the interactive logins this run has entered
    \* ---- the files of one run (moodle.py, exambase.py) ----
    folder,                 \* the files in knowledge_base/<course folder>
    fm_pc,                  \* position of the Moodle course scrape
    nlp_course,             \* the course name routes to _download_nlp_course
    download_links,         \* the links of the course page not yet handled
    existing_files,         \* lower-cased names listed before the scrape
    downloaded_in_this_run, \* lower-cased names saved by the scrape
    downloaded_files_count, \* the count the Moodle scrape returns
    m_saved,                \* the names the Moodle scrape saved, in order
    fe_pc,                  \* position of ExambaseScraper.download_all_courses
    exam_filter,          \* the due list handed to the exam scrape
    codes_todo,             \* keys of courses_by_code not yet searched
    course_code,            \* the code being handled
    searches,               \* how often search_course_exams ran per code
    found,                  \* the rows each search returned
    exam_links,             \* the rows of the code being handled
    folder_names,           \* folders of that code not yet handled
    course_folder,          \* the folder download_exam_papers writes to, 0 when none
    exam_existing_files,    \* lower-cased names listed at the start of the call
    rows_todo,              \* rows of the call not yet handled
    download_count,         \* the count download_exam_papers returns
    e_saved,                \* the names the call saved, in order
    offered,                \* the rows handed to download_exam_papers per folder
    total_downloads_exam,   \* stats["total_downloads"]
    \* ---- one parallel dispatcher (parallel.py) ----
    kind,             \* "moodle": ParallelMoodleDownloader, "exambase": ParallelExambaseDownloader
    num_workers,      \* self.num_workers
    queued,           \* the tasks put on the queue by the dispatcher
    special,          \* tasks whose course name routes to _download_nlp_course
    task_queue,       \* Queue of tasks not yet taken
    unfinished_tasks, \* Queue.unfinished_tasks: put() minus task_done()
    results_queue,    \* Queue of per-worker totals
    login_lock,       \* _login_lock: 0 when free, else the holding worker
    dpc,              \* position of download_all_courses_parallel
    wpc,              \* position of each _download_worker thread
    scraper,          \* each worker's browser: "none", "open", "closed", or
                      \* "orphan" when it is open and the worker has no reference
    logged_in,        \* the worker's browser session is authenticated
    task,             \* the task a worker is processing, 0 when none
    downloaded_count, \* each worker's running total
    total_downloads,  \* the total the dispatcher returns
    taken,            \* how often each task was returned by task_queue.get
    executed,         \* how often a per-course scrape was run for each task
    empty_gets,       \* how many task_queue.get calls ended in queue.Empty
    interrupted,      \* KeyboardInterrupt was raised in the main thread
    \* ---- the bootstrap of _get_user_courses (updater.py) ----
    course_rows,      \* the courses that have a row in the courses table
    fetched_list,     \* the course list the bootstrap fetched from Moodle
    failed_writes,    \* <<course, source>> whose timestamp write raised RuntimeError
    m_candidates,     \* download_links as the Moodle course scrape collected them
    m_failed,         \* the names whose download failed, in order
    \* ---- generate_embeddings_for_files (embeddings_generator.py) ----
    g_pc,             \* position of generate_embeddings_for_files
    file_paths,       \* the files not yet looked at: the chunk count of each
    file_no,          \* the index of the file being ingested
    n_chunks,         \* len(chunks) of the file being ingested
    batch_start,      \* i of the batch loop of embed_texts
    all_vecs,         \* len(all_vecs) of embed_texts
    store,            \* vector store: <<file, number of vectors>> added
    files_success,    \* files_success
    files_failed,     \* files_failed
    total_vectors,    \* total_vectors
    bad_files,        \* files that met a refused batch or a count mismatch
    failed_files,     \* files counted in files_failed
    \* ---- the password (exambase.py:37, parallel.py:35 and 347) ----
    scraper_password,    \* per worker: its scraper object holds self.password
    downloader_password, \* the downloader object holds self.password
    \* ---- the folders of a cold start (moodle.py:337-392, exambase.py:423-427) ----
    mk_dirs,          \* the directories that exist: "root" and course folders
    mk_pc,            \* per source thread: its position
    mk_todo,          \* per source thread: the course folders still to handle
    mk_result,        \* per source thread: "running", "ok" or "failed"
    \* ---- the content of the files on disk ----
    incomplete,       \* <<folder, file>>: the file exists without its whole content
    \* ---- browsers outside the worker pool (scraper.py:271-309, 494-503) ----
    x_pc,             \* per source thread of the parallel path: its position
    contexts,         \* the browsers created outside the pool and still open
    contexts_made,    \* how many such browsers were created
    list_scraper,     \* scraper of _scrape_moodle_parallel: its browser, 0 before
    x_filter,         \* the course names of course_filter not yet parsed
    course_list_len,  \* len(course_list) of _scrape_exambase_parallel
    \* ---- the hard-split loop of _pack (chunker.py:163-173) ----
    hs_pc,            \* position: "idle", "split" (in the while loop) or "done"
    hs_config,        \* the arguments the constructor accepted
    hs_frag_len,      \* frag_len
    hs_start,         \* start
    hs_iter,          \* iterations of the while loop so far
    \* ---- from the course folder back to the course id ----
    lk_pc,            \* "idle", "download", "lookup" or "done"
    lk_courses,       \* courses table: lk_courses[id] is course_name of the row
    lk_course,        \* the id of the course whose file is downloaded
    lk_folder,        \* the folder name in the path of the downloaded file
    lk_id,            \* what _get_course_id returned for that folder name
    \* ---- connect_moodle / ExambaseScraper.login ----
    l_pc,             \* position of the login call
    l_source,         \* "moodle": connect_moodle, "exambase": login
    username_ok,      \* "@" in username and "hku" in username
    attempt,          \* attempt of the retry loop
    driver,           \* self.driver: the browser the scraper holds
    drivers_made,     \* how many browsers were created so far
    live,             \* the browsers that are still running
    browser_log,      \* what the call did to browsers, in order
    login_ret,        \* what the call returned, None before it returns
     \* files counted in files_failed
    \* ---- RecursiveDocumentChunker.chunk (rag/chunker.py) ----
    c_pc,             \* position of chunk()
    text,             \* the lines of the standardized text
    top_blocks,       \* result of _split_by_markers
    block_no,         \* the block whose sentences are being packed
    fragments,        \* the fragments _pack has not yet looked at
    chunks,           \* chunks of the running _pack
    buf,              \* buf of the running _pack
    buf_len,          \* buf_len of the running _pack
    result            \* result of chunk(): each chunk and the block it came from

runVars == <<pc, courses, now, seen, moodle_courses, exambase_courses,
             success, current_time, mTodo, eTodo, written, ingested>>
threadVars == <<mpc, epc, mstats, estats, mLogged, mProcessed,
                eProcessed, newFiles>>
poolVars == <<kind, num_workers, logged_in, queued, special, task_queue, unfinished_tasks,
              results_queue, login_lock, dpc, wpc, scraper, task,
              downloaded_count, total_downloads, taken, executed,
              empty_gets>>
histVars == <<user_courses, runs, prev>>
moodleFileVars == <<fm_pc, nlp_course, download_links, existing_files,
                    downloaded_in_this_run, downloaded_files_count, m_saved>>
examFileVars == <<fe_pc, exam_filter, codes_todo, course_code, searches, found,
                  exam_links, folder_names, course_folder, exam_existing_files,
                  rows_todo, download_count, e_saved, offered,
                  total_downloads_exam>>
folderVars == <<folder, moodleFileVars, examFileVars>>
chunkVars == <<c_pc, text, top_blocks, block_no, fragments, chunks, buf, buf_len,
               result>>
cancelVars == <<interrupted>>
bootVars == <<course_rows, fetched_list>>
attemptVars == <<m_candidates, m_failed>>
ingestVars == <<g_pc, file_paths, file_no, n_chunks, batch_start, all_vecs, store,
                files_success, files_failed, total_vectors, bad_files, failed_files>>
retryVars == <<l_pc, l_source, username_ok, attempt, driver, drivers_made, live, browser_log, login_ret>>
secretVars == <<scraper_password, downloader_password>>
mkdirVars == <<mk_dirs, mk_pc, mk_todo, mk_result>>
partialVars == <<incomplete>>
contextVars == <<x_pc, contexts, contexts_made, list_scraper, x_filter, course_list_len>>
splitVars == <<hs_pc, hs_config, hs_frag_len, hs_start, hs_iter>>
lookupVars == <<lk_pc, lk_courses, lk_course, lk_folder, lk_id>>
nonAttemptVars == <<chunkVars, cancelVars, bootVars, failed_writes, ingestVars, retryVars, secretVars, mkdirVars, partialVars, contextVars, splitVars, lookupVars>>
\* what the creation of folders leaves alone
nonMkdirVars == <<clock, db, disk, runVars, threadVars, histVars, logins, poolVars,
                  folderVars, lookupVars, splitVars, contextVars, partialVars, attemptVars, chunkVars, cancelVars, bootVars,
                  failed_writes, ingestVars, retryVars, secretVars>>
\* what the browsers outside the pool leave alone
nonContextVars == <<clock, db, disk, runVars, threadVars, histVars, logins, poolVars,
                    folderVars, lookupVars, splitVars, attemptVars, chunkVars, cancelVars, bootVars,
                    failed_writes, ingestVars, retryVars, secretVars, mkdirVars,
                    partialVars>>
\* what the hard-split loop leaves alone
nonSplitVars == <<clock, db, disk, runVars, threadVars, histVars, logins, poolVars,
                  folderVars, lookupVars, attemptVars, chunkVars, cancelVars, bootVars,
                  failed_writes, ingestVars, retryVars, secretVars, mkdirVars,
                  partialVars, contextVars>>
\* what the lookup of a course id leaves alone
nonLookupVars == <<clock, db, disk, runVars, threadVars, histVars, logins, poolVars,
                   folderVars, attemptVars, chunkVars, cancelVars, bootVars,
                   failed_writes, ingestVars, retryVars, secretVars, mkdirVars,
                   partialVars, contextVars, splitVars>>
\* what a login call leaves alone
nonRetryVars == <<clock, db, disk, runVars, threadVars, histVars, logins, poolVars,
                  folderVars, lookupVars, splitVars, contextVars, partialVars, mkdirVars, secretVars, attemptVars, chunkVars, cancelVars, bootVars,
                  failed_writes, ingestVars>>
\* what the ingestion leaves alone
nonIngestVars == <<clock, db, disk, runVars, threadVars, histVars, logins, poolVars,
                   folderVars, lookupVars, splitVars, contextVars, partialVars, mkdirVars, secretVars, retryVars, attemptVars, chunkVars, cancelVars, bootVars, failed_writes>>
\* the pipeline variables but the passwords
nonSecretVars == <<chunkVars, cancelVars, bootVars, failed_writes, attemptVars, ingestVars,
                   retryVars, mkdirVars, partialVars, contextVars, splitVars, lookupVars>>
\* what the writing of a file leaves alone of the pipeline
nonPartialVars == <<chunkVars, cancelVars, bootVars, failed_writes, attemptVars, ingestVars,
                    retryVars, secretVars, mkdirVars, contextVars, splitVars, lookupVars>>
nonAttemptPartialVars == <<chunkVars, cancelVars, bootVars, failed_writes, ingestVars,
                           retryVars, secretVars, mkdirVars, contextVars, splitVars, lookupVars>>
pipelineVars == <<chunkVars, cancelVars, bootVars, failed_writes, attemptVars, ingestVars, retryVars, secretVars, mkdirVars, partialVars, contextVars, splitVars, lookupVars>>
vars == <<clock, db, disk, runVars, threadVars, histVars, logins, poolVars,
          folderVars, pipelineVars>>
\* what the chunker leaves alone
nonChunkVars == <<clock, db, disk, runVars, threadVars, histVars, logins, poolVars,
                  folderVars, lookupVars, splitVars, contextVars, partialVars, mkdirVars, secretVars, retryVars, attemptVars, ingestVars, cancelVars, bootVars, failed_writes>>

Workers == 1 .. MaxWorkers
Tasks == 1 .. MaxTasks

\* ---- freshness policy ----------------------------------------------------

\* updater.py:158-170 and 183-193: the test applied to one timestamp
NeedsUpdateStrictAge(ts, t, threshold) ==
    IF ts = None THEN TRUE ELSE t - Val(ts) >= threshold

NeedsUpdate(ts, t, threshold) ==
    IF ts = None THEN TRUE ELSE t - Val(ts) > threshold

\* find_update_time_byid: (update_time_moodle, update_time_exambase)
FindUpdateTimeById(c) == db[c]

\* updater.py:148-155: the rows read for the user's courses
NoRow == [moodle |-> None, exambase |-> None]

RowsRead(cs) == [c \in Courses |-> IF c \in cs THEN FindUpdateTimeById(c) ELSE NoRow]

NoStats == [returned |-> FALSE, success |-> FALSE, files_is_tuple |-> FALSE]

\* the courses table before the runs: course 1 was scraped exactly one
\* threshold ago or never, course 2 was never scraped
InitialTables ==
    {t \in [Courses -> [moodle : {None, Some(StartClock - MOODLE_UPDATE_THRESHOLD)},
                        exambase : {None, Some(StartClock - EXAMBASE_UPDATE_THRESHOLD)}]] :
        t[2] = [moodle |-> None, exambase |-> None]}

\* the user_courses table before the runs: user 1 has its rows, user 2 has
\* them or has none yet
InitialEnrollments ==
    {[u \in Users |-> Enrolled(u)],
     [u \in Users |-> IF u = 1 THEN Enrolled(u) ELSE {}],
     [u \in Users |-> IF u = 1 THEN Enrolled(u) \ Enrolled(2) ELSE {}]}

StoredEnrollments == {[u \in Users |-> Enrolled(u)]}

\* no earlier run of the user
NoPrev == [success |-> FALSE, now |-> 0,
           seen |-> [c \in Courses |-> [moodle |-> None, exambase |-> None]],
           moodle_courses |-> {}, exambase_courses |-> {}, failed_writes |-> {}]

\* every course of the LMS has its row in the courses table
StoredCourses == {Courses}

\* ... or the course the new user is enrolled in has none yet
InitialCourses == {Courses, Courses \ Enrolled(2)}

RunInit(tables, enrollments) ==
    /\ failed_writes = [u \in Users |-> {}]
    /\ fetched_list = [u \in Users |-> {}]
    /\ clock = StartClock
    /\ db \in tables
    /\ user_courses \in enrollments
    /\ runs = [u \in Users |-> 1]
    /\ prev = [u \in Users |-> NoPrev]
    /\ logins = [u \in Users |-> {}]
    /\ disk = {}
    /\ pc = [u \in Users |-> "idle"]
    /\ courses = [u \in Users |-> {}]
    /\ now = [u \in Users |-> 0]
    /\ seen = [u \in Users |-> [c \in Courses |-> NoRow]]
    /\ moodle_courses = [u \in Users |-> {}]
    /\ exambase_courses = [u \in Users |-> {}]
    /\ mpc = [u \in Users |-> "idle"]
    /\ epc = [u \in Users |-> "idle"]
    /\ mstats = [u \in Users |-> NoStats]
    /\ estats = [u \in Users |-> NoStats]
    /\ mLogged = [u \in Users |-> FALSE]
    /\ mProcessed = [u \in Users |-> {}]
    /\ eProcessed = [u \in Users |-> {}]
    /\ newFiles = [u \in Users |-> {}]
    /\ success = [u \in Users |-> FALSE]
    /\ current_time = [u \in Users |-> 0]
    /\ mTodo = [u \in Users |-> {}]
    /\ eTodo = [u \in Users |-> {}]
    /\ written = [u \in Users |-> {}]
    /\ ingested = [u \in Users |-> {}]

\* the wall clock advances
Tick ==
    /\ clock < StartClock + MaxTicks
    /\ clock' = clock + 1
    /\ UNCHANGED <<folderVars, pipelineVars, histVars, logins, poolVars, db, disk, runVars, threadVars>>

\* find_user_courses_by_userid: the course rows of the user
FindUserCoursesByUserid(u) == user_courses[u]

\* updater.py:49-65: the user has course rows in the metadata store
GetUserCourses(u) ==
    /\ pc[u] = "idle"
    /\ FindUserCoursesByUserid(u) # {}
    /\ courses' = [courses EXCEPT ![u] = FindUserCoursesByUserid(u)]
    /\ pc' = [pc EXCEPT ![u] = "check"]
    /\ UNCHANGED <<folderVars, pipelineVars, histVars, logins, poolVars, clock, db, disk, now, seen, moodle_courses, exambase_courses,
                   success, current_time, mTodo, eTodo, written, ingested,
                   threadVars>>

\* updater.py:67-75: the user has no course rows; a browser is started and
\* connect_moodle is entered, no lock is taken
BootstrapLoginStart(u) ==
    /\ pc[u] = "idle"
    /\ FindUserCoursesByUserid(u) = {}
    /\ pc' = [pc EXCEPT ![u] = "bootstrap"]
    /\ logins' = [logins EXCEPT ![u] = @ \cup {"list"}]
    /\ UNCHANGED <<folderVars, pipelineVars, histVars, poolVars, clock, db, disk, courses, now, seen,
                   moodle_courses, exambase_courses, success, current_time,
                   mTodo, eTodo, written, ingested, threadVars>>

\* dao/course.py:73-87: the id of the courses row with this name, if any
FindIdByName(c) == IF c \in course_rows THEN Some(c) ELSE None

\* updater.py:75-121 with 313-323 and 392-400: the course list is fetched.
\* An empty list (or an exception of get_courses) ends the call with
\* success = false.  A listed name that has a courses row gets a
\* user_courses row.  A listed name without a courses row reaches
\* insert_name(course_name), which lacks its course_id argument
\* (dao/course.py:105) and raises TypeError: the call ends with
\* success = false, keeping the rows inserted for the names before it.
Bootstrap(u, ok, unknown, before) ==
    /\ pc[u] = "bootstrap"
    /\ LET listed == IF ok THEN Enrolled(u) ELSE {}
       IN /\ ~ok => ~unknown
          /\ unknown = (\E c \in listed : FindIdByName(c) = None)
          /\ before \subseteq listed
          /\ \A c \in before : FindIdByName(c) # None
          /\ ~unknown => before = listed
          /\ user_courses' = [user_courses EXCEPT ![u] = before]
          /\ fetched_list' = [fetched_list EXCEPT ![u] = listed]
          /\ IF listed = {} \/ unknown
             THEN /\ pc' = [pc EXCEPT ![u] = "done"]
                  /\ success' = [success EXCEPT ![u] = FALSE]
                  /\ UNCHANGED courses
             ELSE /\ pc' = [pc EXCEPT ![u] = "check"]
                  /\ courses' = [courses EXCEPT ![u] = listed]
                  /\ UNCHANGED success
    /\ UNCHANGED <<folderVars, lookupVars, splitVars, contextVars, partialVars, mkdirVars, secretVars, retryVars, attemptVars, ingestVars, chunkVars, cancelVars, course_rows, failed_writes, runs, prev, logins,
                   poolVars, clock, db, disk, now, seen,
                   moodle_courses, exambase_courses, current_time,
                   mTodo, eTodo, written, ingested, threadVars>>

\* updater.py:333: both due lists are empty
NothingDue(m, e) == m = {} /\ e = {}

\* updater.py:335-336: the success flag of the "All courses up to date" result
UpToDateFailure == FALSE

UpToDateSuccess == TRUE

\* updater.py:122-215 followed by updater.py:330-345
GetCoursesNeedUpdate(u) ==
    /\ pc[u] = "check"
    /\ LET t == clock
           m == {c \in courses[u] :
                    NeedsUpdate(FindUpdateTimeById(c).moodle, t, MOODLE_UPDATE_THRESHOLD)}
           e == {c \in courses[u] :
                    NeedsUpdate(FindUpdateTimeById(c).exambase, t, EXAMBASE_UPDATE_THRESHOLD)}
       IN /\ now' = [now EXCEPT ![u] = t]
          /\ seen' = [seen EXCEPT ![u] = RowsRead(courses[u])]
          /\ moodle_courses' = [moodle_courses EXCEPT ![u] = m]
          /\ exambase_courses' = [exambase_courses EXCEPT ![u] = e]
          /\ IF NothingDue(m, e)
             THEN /\ pc' = [pc EXCEPT ![u] = "done"]
                  /\ success' = [success EXCEPT ![u] = UpToDateSuccess]
                  /\ UNCHANGED <<mpc, epc>>
             ELSE /\ pc' = [pc EXCEPT ![u] = "scrape"]
                  /\ mpc' = [mpc EXCEPT ![u] = "start"]
                  /\ epc' = [epc EXCEPT ![u] = "start"]
                  /\ UNCHANGED success
    /\ UNCHANGED <<folderVars, pipelineVars, histVars, logins, poolVars, clock, db, disk, courses, current_time, mTodo, eTodo, written,
                   ingested, mstats, estats, mLogged, mProcessed,
                   eProcessed, newFiles>>

\* ---- RAGScraper._scrape_moodle, parallel_workers = 1 ----------------------

\* scraper.py:158-169: nothing due for Moodle
MoodleSkip(u) ==
    /\ mpc[u] = "start"
    /\ moodle_courses[u] = {}
    /\ mstats' = [mstats EXCEPT ![u] =
                    [returned |-> TRUE, success |-> TRUE, files_is_tuple |-> FALSE]]
    /\ mpc' = [mpc EXCEPT ![u] = "done"]
    /\ UNCHANGED <<folderVars, pipelineVars, histVars, logins, poolVars, clock, db, disk, runVars, epc, estats, mLogged,
                   mProcessed, eProcessed, newFiles>>

\* scraper.py:178-181: connect_moodle is entered, no lock is taken
MoodleLoginStart(u) ==
    /\ mpc[u] = "start"
    /\ moodle_courses[u] # {}
    /\ mpc' = [mpc EXCEPT ![u] = "login"]
    /\ logins' = [logins EXCEPT ![u] = @ \cup {"moodle"}]
    /\ UNCHANGED <<folderVars, pipelineVars, histVars, poolVars, clock, db, disk, runVars, epc, mstats, estats,
                   mLogged, mProcessed, eProcessed, newFiles>>

\* moodle.py:80-254: connect_moodle returns (0 after three failed attempts)
MoodleLoginEnd(u, ok) ==
    /\ mpc[u] = "login"
    /\ mLogged' = [mLogged EXCEPT ![u] = ok]
    /\ mpc' = [mpc EXCEPT ![u] = "list"]
    /\ UNCHANGED <<folderVars, pipelineVars, histVars, logins, poolVars, clock, db, disk, runVars, epc, mstats, estats,
                   mProcessed, eProcessed, newFiles>>

\* moodle.py:345-359: the courses download_all_courses iterates over
MoodleCoursesToDownload(listed, course_filter) ==
    IF course_filter # {} THEN listed \cap course_filter ELSE listed

\* scraper.py:184-222 over moodle.py:256-309 and 311-670, with the exits
\* for an empty course list (186-196) and an exception (224-239), then
\* scraper.close() (240-242); download_all_courses returns the tuple
\* (downloaded_files_count, downloaded_file_paths)
MoodleScrape(u, listed, raised, got) ==
    /\ mpc[u] = "list"
    /\ ~mLogged[u] => listed = {}
    /\ IF raised \/ listed = {}
       THEN /\ got = {}
            /\ mstats' = [mstats EXCEPT ![u] =
                    [returned |-> TRUE, success |-> FALSE, files_is_tuple |-> FALSE]]
            /\ UNCHANGED <<mProcessed, disk, newFiles>>
       ELSE LET todo == MoodleCoursesToDownload(listed, moodle_courses[u])
            IN /\ got \in {{}, {File(c, "moodle") : c \in todo} \ disk}
               /\ mProcessed' = [mProcessed EXCEPT ![u] = todo]
               /\ disk' = disk \cup got
               /\ newFiles' = [newFiles EXCEPT ![u] = @ \cup got]
               /\ mstats' = [mstats EXCEPT ![u] =
                    [returned |-> TRUE, success |-> TRUE, files_is_tuple |-> TRUE]]
    /\ mLogged' = [mLogged EXCEPT ![u] = FALSE]
    /\ mpc' = [mpc EXCEPT ![u] = "done"]
    /\ UNCHANGED <<folderVars, pipelineVars, histVars, logins, poolVars, clock, db, runVars, epc, estats, eProcessed>>

\* ---- RAGScraper._scrape_exambase, parallel_workers = 1 --------------------

\* scraper.py:373-384: nothing due for Exambase
ExambaseSkip(u) ==
    /\ epc[u] = "start"
    /\ exambase_courses[u] = {}
    /\ estats' = [estats EXCEPT ![u] =
                    [returned |-> TRUE, success |-> TRUE, files_is_tuple |-> FALSE]]
    /\ epc' = [epc EXCEPT ![u] = "done"]
    /\ UNCHANGED <<folderVars, pipelineVars, histVars, logins, poolVars, clock, db, disk, runVars, mpc, mstats, mLogged,
                   mProcessed, eProcessed, newFiles>>

\* scraper.py:393-402: ExambaseScraper.login is entered, no lock is taken
ExambaseLoginStart(u) ==
    /\ epc[u] = "start"
    /\ exambase_courses[u] # {}
    /\ epc' = [epc EXCEPT ![u] = "login"]
    /\ logins' = [logins EXCEPT ![u] = @ \cup {"exambase"}]
    /\ UNCHANGED <<folderVars, pipelineVars, histVars, poolVars, clock, db, disk, runVars, mpc, mstats, estats,
                   mLogged, mProcessed, eProcessed, newFiles>>

\* scraper.py:402-413 over exambase.py:93-245
ExambaseLoginEnd(u, ok) ==
    /\ epc[u] = "login"
    /\ IF ok
       THEN /\ epc' = [epc EXCEPT ![u] = "download"]
            /\ UNCHANGED estats
       ELSE /\ estats' = [estats EXCEPT ![u] =
                    [returned |-> TRUE, success |-> FALSE, files_is_tuple |-> FALSE]]
            /\ epc' = [epc EXCEPT ![u] = "done"]
    /\ UNCHANGED <<folderVars, pipelineVars, histVars, logins, poolVars, clock, db, disk, runVars, mpc, mstats, mLogged,
                   mProcessed, eProcessed, newFiles>>

\* exambase.py:565-583: only names with a leading course code are searched
ExambaseCourseList(course_filter) == {c \in course_filter : HasCourseCode(c)}

\* scraper.py:416-437 over exambase.py:549-628
ExambaseDownload(u, got) ==
    /\ epc[u] = "download"
    /\ LET todo == ExambaseCourseList(exambase_courses[u])
       IN /\ got \in {{}, {File(c, "exambase") : c \in todo} \ disk}
          /\ eProcessed' = [eProcessed EXCEPT ![u] = todo]
    /\ disk' = disk \cup got
    /\ newFiles' = [newFiles EXCEPT ![u] = @ \cup got]
    /\ estats' = [estats EXCEPT ![u] =
                    [returned |-> TRUE, success |-> TRUE, files_is_tuple |-> FALSE]]
    /\ epc' = [epc EXCEPT ![u] = "done"]
    /\ UNCHANGED <<folderVars, pipelineVars, histVars, logins, poolVars, clock, db, runVars, mpc, mstats, mLogged, mProcessed>>

\* ---- RAGScraper.scrape_all: join and summary ------------------------------

\* scraper.py:652-654: moodle.get("files_downloaded", 0) +
\* exambase.get("exams_downloaded", 0) raises TypeError when the Moodle value
\* is the tuple returned by download_all_courses
PrintSummaryRaises(ms, es) == ms.files_is_tuple

\* scraper.py:126: the flag set after both joins
SuccessAfterJoin(ms, es) == TRUE

\* scraper.py:118-119: moodle_thread.join() and exambase_thread.join()
JoinedEither(u) == mpc[u] = "done" \/ epc[u] = "done"

Joined(u) == mpc[u] = "done" /\ epc[u] = "done"

\* scraper.py:118-131, and 137-144 when _print_summary raises
Join(u) ==
    /\ pc[u] = "scrape"
    /\ Joined(u)
    /\ success' = [success EXCEPT ![u] =
                     IF PrintSummaryRaises(mstats[u], estats[u])
                     THEN FALSE
                     ELSE SuccessAfterJoin(mstats[u], estats[u])]
    /\ pc' = [pc EXCEPT ![u] = "step4"]
    /\ UNCHANGED <<folderVars, pipelineVars, histVars, logins, poolVars, clock, db, disk, courses, now, seen, moodle_courses,
                   exambase_courses, current_time, mTodo, eTodo, written,
                   ingested, threadVars>>

\* ---- update_knowledge_base step 4 and _update_timestamps ------------------

\* updater.py:234-238: the due names that name_to_id knows
KnownNamesNone(u, names) == {}

KnownNames(u, names) == {c \in names : c \in courses[u]}

\* updater.py:362-370 and 231: the clock is read once, before the writes
BeginUpdateTimestamps(u) ==
    /\ pc[u] = "step4"
    /\ IF success[u]
       THEN /\ current_time' = [current_time EXCEPT ![u] = clock]
            /\ mTodo' = [mTodo EXCEPT ![u] = KnownNames(u, moodle_courses[u])]
            /\ eTodo' = [eTodo EXCEPT ![u] = KnownNames(u, exambase_courses[u])]
            /\ pc' = [pc EXCEPT ![u] = "timestamps"]
       ELSE /\ pc' = [pc EXCEPT ![u] = "done"]
            /\ UNCHANGED <<current_time, mTodo, eTodo>>
    /\ UNCHANGED <<folderVars, pipelineVars, histVars, logins, poolVars, clock, db, disk, courses, now, seen, moodle_courses,
                   exambase_courses, success, written, ingested, threadVars>>

\* the next name of a list kept in course order
First(S) == CHOOSE c \in S : \A d \in S : c <= d

\* updater.py:241 and 254: the value handed to the DAO
UpdateTimeArgClock(u) == clock

UpdateTimeArg(u) == current_time[u]

\* dao/course.py:153-171: UPDATE courses SET update_time_moodle = t WHERE id = c
UpdateMoodleTimeBoth(table, c, t) ==
    [table EXCEPT ![c] = [moodle |-> Some(t), exambase |-> Some(t)]]

UpdateMoodleTime(table, c, t) == [table EXCEPT ![c].moodle = Some(t)]

\* dao/course.py:173-193: UPDATE courses SET update_time_exambase = t WHERE id = c
UpdateExambaseTime(table, c, t) == [table EXCEPT ![c].exambase = Some(t)]

\* updater.py:246-247 and 259-260: 'except RuntimeError' logs the failure and
\* the loop goes on with the next name
AfterRuntimeErrorAbort == "done"

AfterRuntimeError == "timestamps"

\* updater.py:237-247 over dao/course.py:153-171, one course; the DAO raises
\* RuntimeError when the connection or the statement fails
\* (dao/connector.py:40-41, dao/course.py:170-171) and nothing is committed
WriteMoodleTime(u, raised) ==
    /\ pc[u] = "timestamps"
    /\ mTodo[u] # {}
    /\ LET c == First(mTodo[u])
           t == UpdateTimeArg(u)
       IN /\ mTodo' = [mTodo EXCEPT ![u] = @ \ {c}]
          /\ IF raised
             THEN /\ failed_writes' = [failed_writes EXCEPT ![u] = @ \cup {<<c, "moodle">>}]
                  /\ pc' = [pc EXCEPT ![u] = AfterRuntimeError]
                  /\ UNCHANGED <<db, written>>
             ELSE /\ db' = UpdateMoodleTime(db, c, t)
                  /\ written' = [written EXCEPT ![u] = @ \cup {<<c, "moodle", t>>}]
                  /\ UNCHANGED <<failed_writes, pc>>
    /\ UNCHANGED <<folderVars, lookupVars, splitVars, contextVars, partialVars, mkdirVars, secretVars, retryVars, attemptVars, ingestVars, chunkVars, cancelVars, bootVars, histVars, logins, poolVars,
                   clock, disk, courses, now, seen, moodle_courses,
                   exambase_courses, success, current_time, eTodo, ingested,
                   threadVars>>

\* updater.py:250-260 over dao/course.py:173-193, one course
WriteExambaseTime(u, raised) ==
    /\ pc[u] = "timestamps"
    /\ mTodo[u] = {}
    /\ eTodo[u] # {}
    /\ LET c == First(eTodo[u])
           t == UpdateTimeArg(u)
       IN /\ eTodo' = [eTodo EXCEPT ![u] = @ \ {c}]
          /\ IF raised
             THEN /\ failed_writes' = [failed_writes EXCEPT ![u] = @ \cup {<<c, "exambase">>}]
                  /\ pc' = [pc EXCEPT ![u] = AfterRuntimeError]
                  /\ UNCHANGED <<db, written>>
             ELSE /\ db' = UpdateExambaseTime(db, c, t)
                  /\ written' = [written EXCEPT ![u] = @ \cup {<<c, "exambase", t>>}]
                  /\ UNCHANGED <<failed_writes, pc>>
    /\ UNCHANGED <<folderVars, lookupVars, splitVars, contextVars, partialVars, mkdirVars, secretVars, retryVars, attemptVars, ingestVars, chunkVars, cancelVars, bootVars, histVars, logins, poolVars,
                   clock, disk, courses, now, seen, moodle_courses,
                   exambase_courses, success, current_time, mTodo, ingested,
                   threadVars>>

\* updater.py:372-390: the stats are returned; no ingestion call is made
Return(u) ==
    /\ pc[u] = "timestamps"
    /\ mTodo[u] = {}
    /\ eTodo[u] = {}
    /\ pc' = [pc EXCEPT ![u] = "done"]
    /\ UNCHANGED <<folderVars, pipelineVars, histVars, logins, poolVars, clock, db, disk, courses, now, seen, moodle_courses,
                   exambase_courses, success, current_time, mTodo, eTodo,
                   written, ingested, threadVars>>

\* update_knowledge_base is called again for the user once the previous call
\* has returned (routes of services/api, chat agent); the locals of the run
\* start afresh
UpdateKnowledgeBaseAgain(u) ==
    /\ pc[u] = "done"
    /\ runs[u] < MaxRuns
    /\ runs' = [runs EXCEPT ![u] = @ + 1]
    /\ prev' = [prev EXCEPT ![u] =
                  [success |-> success[u], now |-> now[u], seen |-> seen[u],
                   moodle_courses |-> moodle_courses[u],
                   exambase_courses |-> exambase_courses[u],
                   failed_writes |-> failed_writes[u]]]
    /\ pc' = [pc EXCEPT ![u] = "idle"]
    /\ courses' = [courses EXCEPT ![u] = {}]
    /\ now' = [now EXCEPT ![u] = 0]
    /\ seen' = [seen EXCEPT ![u] = [c \in Courses |-> NoRow]]
    /\ moodle_courses' = [moodle_courses EXCEPT ![u] = {}]
    /\ exambase_courses' = [exambase_courses EXCEPT ![u] = {}]
    /\ mpc' = [mpc EXCEPT ![u] = "idle"]
    /\ epc' = [epc EXCEPT ![u] = "idle"]
    /\ mstats' = [mstats EXCEPT ![u] = NoStats]
    /\ estats' = [estats EXCEPT ![u] = NoStats]
    /\ mProcessed' = [mProcessed EXCEPT ![u] = {}]
    /\ eProcessed' = [eProcessed EXCEPT ![u] = {}]
    /\ newFiles' = [newFiles EXCEPT ![u] = {}]
    /\ success' = [success EXCEPT ![u] = FALSE]
    /\ current_time' = [current_time EXCEPT ![u] = 0]
    /\ written' = [written EXCEPT ![u] = {}]
    /\ logins' = [logins EXCEPT ![u] = {}]
    /\ failed_writes' = [failed_writes EXCEPT ![u] = {}]
    /\ UNCHANGED <<folderVars, lookupVars, splitVars, contextVars, partialVars, mkdirVars, secretVars, retryVars, attemptVars, ingestVars, chunkVars, cancelVars, bootVars, poolVars, clock, db, disk, user_courses, mLogged,
                   mTodo, eTodo, ingested>>

\* ---- the parallel dispatcher ----------------------------------------------

\* no dispatcher has been constructed
PoolIdle ==
    /\ kind = "moodle"
    /\ num_workers = 0
    /\ queued = {}
    /\ special = {}
    /\ task_queue = <<>>
    /\ unfinished_tasks = 0
    /\ results_queue = <<>>
    /\ login_lock = 0
    /\ dpc = "none"
    /\ wpc = [w \in Workers |-> "unused"]
    /\ scraper = [w \in Workers |-> "none"]
    /\ logged_in = [w \in Workers |-> FALSE]
    /\ task = [w \in Workers |-> 0]
    /\ downloaded_count = [w \in Workers |-> 0]
    /\ total_downloads = 0
    /\ taken = [t \in Tasks |-> 0]
    /\ executed = [t \in Tasks |-> 0]
    /\ empty_gets = 0
    /\ interrupted = FALSE
    /\ scraper_password = [w \in Workers |-> FALSE]
    /\ downloader_password = FALSE

\* parallel.py:23-42 and 333-350: a downloader was constructed
PoolInit ==
    /\ kind \in {"moodle", "exambase"}
    /\ num_workers \in 1 .. MaxWorkers
    /\ queued = {}
    /\ special = {}
    /\ task_queue = <<>>
    /\ unfinished_tasks = 0
    /\ results_queue = <<>>
    /\ login_lock = 0
    /\ dpc = "start"
    /\ wpc = [w \in Workers |-> "unused"]
    /\ scraper = [w \in Workers |-> "none"]
    /\ logged_in = [w \in Workers |-> FALSE]
    /\ task = [w \in Workers |-> 0]
    /\ downloaded_count = [w \in Workers |-> 0]
    /\ total_downloads = 0
    /\ taken = [t \in Tasks |-> 0]
    /\ executed = [t \in Tasks |-> 0]
    /\ empty_gets = 0
    /\ interrupted = FALSE
    /\ scraper_password = [w \in Workers |-> FALSE]
    /\ downloader_password = TRUE

RECURSIVE Sum(_)
Sum(q) == IF q = <<>> THEN 0 ELSE Head(q) + Sum(Tail(q))

\* the sequence 1, ..., n
Upto(n) == [i \in 1 .. n |-> i]

\* parallel.py:286-304 and 442-460: fill the task queue, start the workers
Dispatch(n, nlp) ==
    /\ dpc = "start"
    /\ nlp \subseteq 1 .. n
    /\ kind = "exambase" => nlp = {}
    /\ queued' = 1 .. n
    /\ special' = nlp
    /\ task_queue' = Upto(n)
    /\ unfinished_tasks' = n
    /\ wpc' = [w \in Workers |-> IF w <= num_workers THEN "create" ELSE "unused"]
    /\ dpc' = "join"
    /\ UNCHANGED <<folderVars, pipelineVars, histVars, logins, clock, db, disk, runVars,
                   threadVars, kind, num_workers, logged_in,
                   results_queue, login_lock, scraper, task, downloaded_count,
                   total_downloads, taken, executed, empty_gets>>

\* exambase.py:36-37: ExambaseScraper stores the password in self.password;
\* moodle.py:18-33 and 80: HKUMoodleScraper only receives it as an argument
\* of connect_moodle
ScraperKeepsPassword == kind = "exambase"

\* exambase.py:659-662 and moodle.py:820-823: close() quits the driver and
\* assigns nothing else
PasswordAfterClose(held) == held

\* parallel.py:59 and 364-366: the scraper constructor starts a browser; when
\* that raises, the worker goes to its finally block with scraper = None
CreateScraper(w, raised) ==
    /\ wpc[w] = "create"
    /\ IF raised
       THEN /\ wpc' = [wpc EXCEPT ![w] = "finally"]
            /\ UNCHANGED scraper
       ELSE /\ wpc' = [wpc EXCEPT ![w] = "lock"]
            /\ scraper' = [scraper EXCEPT ![w] = "open"]
    /\ scraper_password' = [scraper_password EXCEPT ![w] = ScraperKeepsPassword /\ ~raised]
    /\ UNCHANGED <<folderVars, nonSecretVars, downloader_password, histVars, logins, clock, db, disk, runVars,
                   threadVars, kind, num_workers, logged_in,
                   queued, special, task_queue, unfinished_tasks, results_queue,
                   login_lock, dpc, task, downloaded_count, total_downloads,
                   taken, executed, empty_gets>>

\* parallel.py:62 and 369: with _login_lock
AcquireLoginLock(w) ==
    /\ wpc[w] = "lock"
    /\ login_lock = 0
    /\ login_lock' = w
    /\ wpc' = [wpc EXCEPT ![w] = "login"]
    /\ UNCHANGED <<folderVars, pipelineVars, histVars, logins, clock, db, disk, runVars,
                   threadVars, kind, num_workers, logged_in,
                   queued, special, task_queue, unfinished_tasks, results_queue, dpc,
                   scraper, task, downloaded_count, total_downloads, taken,
                   executed, empty_gets>>

\* parallel.py:62-67 and 369-375: the lock when the with block is left
LockKeptAfterLogin(w) == w

LockAfterLogin(w) == 0

\* parallel.py:63-69: connect_moodle returns whether or not it logged in and
\* its result is not looked at; parallel.py:370-377: a failed Exambase login
\* raises before the scraper is returned, so the worker's scraper stays
\* None while the browser stays open; the with block releases the lock on
\* both exits
WorkerLogin(w, ok) ==
    /\ wpc[w] = "login"
    /\ login_lock' = LockAfterLogin(w)
    /\ logged_in' = [logged_in EXCEPT ![w] = ok]
    /\ wpc' = [wpc EXCEPT ![w] =
                 IF kind = "exambase" /\ ~ok THEN "finally" ELSE "loop"]
    /\ scraper' = [scraper EXCEPT ![w] =
                     IF kind = "exambase" /\ ~ok THEN "orphan" ELSE @]
    /\ UNCHANGED <<folderVars, pipelineVars, histVars, logins, clock, db, disk, runVars,
                   threadVars, kind, num_workers,
                   queued, special, task_queue, unfinished_tasks, results_queue, dpc,
                   task, downloaded_count, total_downloads, taken,
                   executed, empty_gets>>

\* parallel.py:91 and 399: while not task_queue.empty()
TestQueueEmpty(w) ==
    /\ wpc[w] = "loop"
    /\ wpc' = [wpc EXCEPT ![w] = IF task_queue = <<>> THEN "finally" ELSE "get"]
    /\ UNCHANGED <<folderVars, pipelineVars, histVars, logins, clock, db, disk, runVars,
                   threadVars, kind, num_workers, logged_in,
                   queued, special, task_queue, unfinished_tasks, results_queue,
                   login_lock, dpc, scraper, task, downloaded_count,
                   total_downloads, taken, executed, empty_gets>>

\* Queue.get: the queue that is left behind
QueueAfterGetPeek(q) == q

QueueAfterGet(q) == Tail(q)

\* parallel.py:94 and 401: task_queue.get(timeout=1); on an empty queue it
\* raises queue.Empty after the timeout and the except clause (108-113,
\* 414-416) returns to the loop test
GetTask(w) ==
    /\ wpc[w] = "get"
    /\ IF task_queue # <<>>
       THEN /\ task' = [task EXCEPT ![w] = Head(task_queue)]
            /\ taken' = [taken EXCEPT ![Head(task_queue)] = @ + 1]
            /\ task_queue' = QueueAfterGet(task_queue)
            /\ wpc' = [wpc EXCEPT ![w] = "work"]
            /\ UNCHANGED empty_gets
       ELSE /\ wpc' = [wpc EXCEPT ![w] = "loop"]
            /\ empty_gets' = empty_gets + 1
            /\ UNCHANGED <<task, taken, task_queue>>
    /\ UNCHANGED <<folderVars, pipelineVars, histVars, logins, clock, db, disk, runVars,
                   threadVars, kind, num_workers, logged_in,
                   queued, special, unfinished_tasks, results_queue, login_lock, dpc,
                   scraper, downloaded_count, total_downloads, executed>>

\* parallel.py:138-139 with moodle.py:793: for a special course
\* _download_single_course returns the tuple of _download_nlp_course, and
\* downloaded_count += files_downloaded (parallel.py:103) raises TypeError
AddRaises(t) == kind = "moodle" /\ t \in special

\* parallel.py:99-113 and 402-416: scrape the course; on success add the
\* count and call task_done(); on an exception log it and return to the
\* loop test without task_done()
ProcessTask(w, n, raised) ==
    /\ wpc[w] = "work"
    /\ AddRaises(task[w]) => raised
    /\ executed' = [executed EXCEPT ![task[w]] = @ + 1]
    /\ IF raised
       THEN /\ n = 0
            /\ UNCHANGED <<downloaded_count, unfinished_tasks>>
       ELSE /\ downloaded_count' = [downloaded_count EXCEPT ![w] = @ + n]
            /\ unfinished_tasks' = unfinished_tasks - 1
    /\ task' = [task EXCEPT ![w] = 0]
    /\ wpc' = [wpc EXCEPT ![w] = "loop"]
    /\ UNCHANGED <<folderVars, pipelineVars, histVars, logins, clock, db, disk, runVars,
                   threadVars, kind, num_workers, logged_in,
                   queued, special, task_queue, results_queue, login_lock, dpc,
                   scraper, total_downloads, taken,
                   empty_gets>>

\* parallel.py:115-126 and 418-426: close the browser the worker holds,
\* report the total
WorkerFinally(w) ==
    /\ wpc[w] = "finally"
    /\ scraper' = [scraper EXCEPT ![w] = IF @ = "open" THEN "closed" ELSE @]
    /\ results_queue' = Append(results_queue, downloaded_count[w])
    /\ wpc' = [wpc EXCEPT ![w] = "done"]
    /\ scraper_password' = [scraper_password EXCEPT ![w] =
                              IF scraper[w] = "open" THEN PasswordAfterClose(@) ELSE @]
    /\ UNCHANGED <<folderVars, nonSecretVars, downloader_password, histVars, logins, clock, db, disk, runVars,
                   threadVars, kind, num_workers, logged_in,
                   queued, special, task_queue, unfinished_tasks, login_lock, dpc,
                   task, downloaded_count, total_downloads, taken, executed, empty_gets>>

\* parallel.py:307 and 463: task_queue.join() returns once every put() has
\* been matched by a task_done()
JoinTasks ==
    /\ dpc = "join"
    /\ unfinished_tasks = 0
    /\ dpc' = "threads"
    /\ UNCHANGED <<folderVars, pipelineVars, histVars, logins, clock, db, disk, runVars,
                   threadVars, kind, num_workers, logged_in,
                   queued, special, task_queue, unfinished_tasks, results_queue,
                   login_lock, wpc, scraper, task, downloaded_count,
                   total_downloads, taken, executed, empty_gets>>

\* parallel.py:310-311 and 465-466: thread.join(timeout=5) returns when the
\* worker has ended or the timeout has passed
JoinThreads ==
    /\ dpc = "threads"
    /\ dpc' = "collect"
    /\ UNCHANGED <<folderVars, pipelineVars, histVars, logins, clock, db, disk, runVars,
                   threadVars, kind, num_workers, logged_in,
                   queued, special, task_queue, unfinished_tasks, results_queue,
                   login_lock, wpc, scraper, task, downloaded_count,
                   total_downloads, taken, executed, empty_gets>>

\* parallel.py:314-324 and 469-477: drain the results queue and return
CollectResults ==
    /\ dpc = "collect"
    /\ total_downloads' = Sum(results_queue)
    /\ results_queue' = <<>>
    /\ dpc' = "returned"
    /\ UNCHANGED <<folderVars, pipelineVars, histVars, logins, clock, db, disk, runVars,
                   threadVars, kind, num_workers, logged_in,
                   queued, special, task_queue, unfinished_tasks, login_lock, wpc,
                   scraper, task, downloaded_count, taken, executed, empty_gets>>

\* scraper.py:118-119 and 133-136: Ctrl-C raises KeyboardInterrupt in the
\* main thread, which waits in moodle_thread.join(); scrape_all returns its
\* stats with success False.  Neither the source thread that runs the
\* dispatcher nor the workers are told
KeyboardInterrupt ==
    /\ dpc \in {"join", "threads"}
    /\ ~interrupted
    /\ interrupted' = TRUE
    /\ UNCHANGED <<clock, db, disk, runVars, threadVars, histVars, logins, poolVars,
                   folderVars, lookupVars, splitVars, contextVars, partialVars, mkdirVars, secretVars, retryVars, attemptVars, ingestVars, chunkVars, bootVars, failed_writes>>

\* ---- the files of one run ---------------------------------------------------

\* the course folders under knowledge_base/ that one run works on
Folders == {1, 2, 3, 4}

\* re.match(r"^([A-Z]+\d+)", course_name).group(1): folders 1 and 3 are two
\* sections of COMP7103, folder 2 has a title without a code
CourseCode(c) ==
    CASE c = 1 -> "COMP7103"
      [] c = 2 -> ""
      [] c = 3 -> "COMP7103"
      [] c = 4 -> "MATH1013"

Codes == {"COMP7103", "MATH1013"}

\* the folder of the course that is due for both sources
MoodleFolder == 1

\* a file name: its letters lower-cased, and whether it has capitals
FileName(stem, upper) == [stem |-> stem, upper |-> upper]

\* str.lower()
Lower(f) == [f EXCEPT !.upper = FALSE]

LowerAll(files) == {Lower(f) : f \in files}

\* the file names the links of a course page can carry
MoodleFiles == {FileName("lecture1.pdf", FALSE), FileName("lecture1.pdf", TRUE)}

\* the rows a search of Exambase can return for a code: title and "Exam
\* date" text; the rows of MATH1013 carry no date
ExamRows(code) ==
    IF code = "COMP7103"
    THEN {[title |-> "Data_mining", date |-> "12-5-2020"]}
    ELSE {[title |-> "Calculus", date |-> ""]}

\* exambase.py:451-462: d-m-yyyy becomes yyyy-mm-dd
ExamDate(date) == IF date = "12-5-2020" THEN "2020-05-12" ELSE ""

\* exambase.py:491-507: the canonical file name of a row
ExamFilename(code, row) ==
    LET withCode == code \o "_" \o row.title
        withDate == IF ExamDate(row.date) # ""
                    THEN withCode \o "_" \o ExamDate(row.date)
                    ELSE withCode
    IN FileName(withDate \o ".pdf", TRUE)

\* sequences over S of length at most n
SeqsUpTo(S, n) == UNION {[1 .. k -> S] : k \in 0 .. n}

\* how often the name n (letter case ignored) occurs in the sequence q
Occurrences(q, n) == Cardinality({i \in DOMAIN q : Lower(q[i]) = Lower(n)})

\* no file-level scrape is modelled
FilesIdle ==
    /\ folder = [c \in Folders |-> {}]
    /\ fm_pc = "idle"
    /\ nlp_course = FALSE
    /\ download_links = <<>>
    /\ existing_files = {}
    /\ downloaded_in_this_run = {}
    /\ downloaded_files_count = 0
    /\ m_saved = <<>>
    /\ fe_pc = "idle"
    /\ exam_filter = {}
    /\ codes_todo = {}
    /\ course_code = ""
    /\ searches = [k \in Codes |-> 0]
    /\ found = [k \in Codes |-> {}]
    /\ exam_links = <<>>
    /\ folder_names = {}
    /\ course_folder = 0
    /\ exam_existing_files = {}
    /\ rows_todo = <<>>
    /\ download_count = 0
    /\ e_saved = <<>>
    /\ offered = [c \in Folders |-> {}]
    /\ total_downloads_exam = 0
    /\ m_candidates = <<>>
    /\ m_failed = <<>>
    /\ incomplete = {}

\* scrape_all has started MoodleThread on the course of MoodleFolder and
\* ExambaseThread on a due list; the folder holds nothing yet or one file of
\* an earlier run
FilesInit ==
    /\ folder \in {[c \in Folders |-> {}],
                   [c \in Folders |-> IF c = MoodleFolder
                                      THEN {FileName("lecture1.pdf", FALSE)}
                                      ELSE {}]}
    /\ fm_pc = "start"
    /\ nlp_course \in BOOLEAN
    /\ download_links = <<>>
    /\ existing_files = {}
    /\ downloaded_in_this_run = {}
    /\ downloaded_files_count = 0
    /\ m_saved = <<>>
    /\ fe_pc = "start"
    /\ exam_filter \in {{1, 2, 3}, {1, 4}}
    /\ codes_todo = {}
    /\ course_code = ""
    /\ searches = [k \in Codes |-> 0]
    /\ found = [k \in Codes |-> {}]
    /\ exam_links = <<>>
    /\ folder_names = {}
    /\ course_folder = 0
    /\ exam_existing_files = {}
    /\ rows_todo = <<>>
    /\ download_count = 0
    /\ e_saved = <<>>
    /\ offered = [c \in Folders |-> {}]
    /\ total_downloads_exam = 0
    /\ m_candidates = <<>>
    /\ m_failed = <<>>
    /\ incomplete = {}

\* moodle.py:387-397 (parallel.py:142-150, moodle.py:730-735), then the
\* links of the course page are collected (moodle.py:400-612)
MoodleStartCourse(links) ==
    /\ fm_pc = "start"
    /\ existing_files' = LowerAll(folder[MoodleFolder])
    /\ downloaded_in_this_run' = {}
    /\ download_links' = links
    /\ m_candidates' = links
    /\ m_failed' = <<>>
    /\ fm_pc' = "loop"
    /\ UNCHANGED <<nonAttemptVars, histVars, logins, poolVars, clock, db, disk, runVars, threadVars,
                   folder, examFileVars, nlp_course, downloaded_files_count, m_saved>>

\* moodle.py:621-624: the duplicate test of the course scrape;
\* moodle.py:768: _download_nlp_course tests existing_files alone
AlreadyExists(f) ==
    \/ Lower(f) \in existing_files
    \/ ~nlp_course /\ Lower(f) \in downloaded_in_this_run

\* moodle.py:615-629 and 754-770: the next link is skipped or its download
\* is issued; after the last link the course is complete
MoodleNextLink ==
    /\ fm_pc = "loop"
    /\ IF download_links = <<>>
       THEN /\ fm_pc' = "done"
            /\ UNCHANGED download_links
       ELSE IF AlreadyExists(Head(download_links))
       THEN /\ download_links' = Tail(download_links)
            /\ UNCHANGED fm_pc
       ELSE /\ fm_pc' = "request"
            /\ UNCHANGED download_links
    /\ UNCHANGED <<pipelineVars, histVars, logins, poolVars, clock, db, disk, runVars, threadVars,
                   folder, examFileVars, nlp_course, existing_files,
                   downloaded_in_this_run, downloaded_files_count, m_saved>>

\* moodle.py:642-650 and 784-786: a failed download is logged and the loop
\* goes on with the next link
AfterDownloadFailedAbort == "done"

AfterDownloadFailed == "loop"

\* moodle.py:706-708 and exambase.py:540-541: the except clause of a
\* download logs the exception and removes nothing, so the file opened with
\* "wb" stays with what was written of it
AfterBrokenTransfer(c, f) == incomplete

\* moodle.py:695-699 and 775-778: the request fails, or the target file is
\* opened for writing
MoodleOpenFile(ok) ==
    /\ fm_pc = "request"
    /\ IF ok
       THEN /\ folder' = [folder EXCEPT ![MoodleFolder] = @ \cup {Head(download_links)}]
            /\ incomplete' = incomplete \cup {<<MoodleFolder, Head(download_links)>>}
            /\ fm_pc' = "writing"
            /\ UNCHANGED <<download_links, m_failed>>
       ELSE /\ download_links' = Tail(download_links)
            /\ m_failed' = Append(m_failed, Head(download_links))
            /\ fm_pc' = AfterDownloadFailed
            /\ UNCHANGED <<folder, incomplete>>
    /\ UNCHANGED <<nonAttemptPartialVars, m_candidates, histVars, logins, poolVars, clock, db, disk, runVars, threadVars,
                   examFileVars, nlp_course, existing_files, downloaded_in_this_run,
                   downloaded_files_count, m_saved>>

\* moodle.py:699-708 with 636-642, and 778-786: the content is written and
\* the file is counted, or the transfer breaks and the download has failed
MoodleCloseFile(ok) ==
    /\ fm_pc = "writing"
    /\ IF ok
       THEN /\ downloaded_in_this_run' =
                  IF nlp_course THEN downloaded_in_this_run
                  ELSE downloaded_in_this_run \cup {Lower(Head(download_links))}
            /\ downloaded_files_count' = downloaded_files_count + 1
            /\ m_saved' = Append(m_saved, Head(download_links))
            /\ incomplete' = incomplete \ {<<MoodleFolder, Head(download_links)>>}
            /\ fm_pc' = "loop"
            /\ UNCHANGED m_failed
       ELSE /\ m_failed' = Append(m_failed, Head(download_links))
            /\ incomplete' = AfterBrokenTransfer(MoodleFolder, Head(download_links))
            /\ fm_pc' = AfterDownloadFailed
            /\ UNCHANGED <<downloaded_in_this_run, downloaded_files_count, m_saved>>
    /\ download_links' = Tail(download_links)
    /\ UNCHANGED <<nonAttemptPartialVars, m_candidates, histVars, logins, poolVars, clock, db, disk, runVars, threadVars,
                   folder, examFileVars, nlp_course, existing_files>>

\* exambase.py:565-583: the names of the filter that start with a course code
ExamCourseList(names) == {c \in names : CourseCode(c) # ""}

\* exambase.py:601-603: courses_by_code[course_code]
CoursesByCodeFirst(course_list, code) ==
    LET S == {c \in course_list : CourseCode(c) = code}
    IN IF S = {} THEN {} ELSE {CHOOSE c \in S : \A d \in S : c <= d}

CoursesByCode(course_list, code) == {c \in course_list : CourseCode(c) = code}

\* exambase.py:565-603: the filter is parsed and grouped by code
ExamStart ==
    /\ fe_pc = "start"
    /\ codes_todo' = {CourseCode(c) : c \in ExamCourseList(exam_filter)}
    /\ fe_pc' = "codes"
    /\ UNCHANGED <<pipelineVars, histVars, logins, poolVars, clock, db, disk, runVars, threadVars,
                   folder, moodleFileVars, exam_filter, course_code, searches,
                   found, exam_links, folder_names, course_folder,
                   exam_existing_files, rows_todo, download_count, e_saved,
                   offered, total_downloads_exam>>

\* exambase.py:605-621: the next code is searched once; without results its
\* folders are only counted
ExamSearch(code, links) ==
    /\ fe_pc = "codes"
    /\ codes_todo # {}
    /\ code = CHOOSE k \in codes_todo : TRUE
    /\ codes_todo' = codes_todo \ {code}
    /\ course_code' = code
    /\ searches' = [searches EXCEPT ![code] = @ + 1]
    /\ found' = [found EXCEPT ![code] = {links[i] : i \in DOMAIN links}]
    /\ exam_links' = links
    /\ IF links = <<>>
       THEN /\ folder_names' = {}
            /\ UNCHANGED fe_pc
       ELSE /\ folder_names' = CoursesByCode(ExamCourseList(exam_filter), code)
            /\ fe_pc' = "folders"
    /\ UNCHANGED <<pipelineVars, histVars, logins, poolVars, clock, db, disk, runVars, threadVars,
                   folder, moodleFileVars, exam_filter, course_folder,
                   exam_existing_files, rows_todo, download_count, e_saved,
                   offered, total_downloads_exam>>

\* exambase.py:605 and 626: after the last code the statistics are returned
ExamReturn ==
    /\ fe_pc = "codes"
    /\ codes_todo = {}
    /\ fe_pc' = "done"
    /\ UNCHANGED <<pipelineVars, histVars, logins, poolVars, clock, db, disk, runVars, threadVars,
                   folder, moodleFileVars, exam_filter, codes_todo, course_code,
                   searches, found, exam_links, folder_names, course_folder,
                   exam_existing_files, rows_todo, download_count, e_saved,
                   offered, total_downloads_exam>>

\* exambase.py:610-616 with 420-434: download_exam_papers is entered for the
\* next folder of the code and lists the folder
DownloadExamPapers ==
    /\ fe_pc = "folders"
    /\ IF folder_names = {}
       THEN /\ fe_pc' = "codes"
            /\ UNCHANGED <<folder_names, course_folder, exam_existing_files,
                           rows_todo, download_count, e_saved, offered>>
       ELSE LET c == First(folder_names)
            IN /\ folder_names' = folder_names \ {c}
               /\ course_folder' = c
               /\ exam_existing_files' = LowerAll(folder[c])
               /\ rows_todo' = exam_links
               /\ download_count' = 0
               /\ e_saved' = <<>>
               /\ offered' = [offered EXCEPT ![c] =
                                @ \cup {exam_links[i] : i \in DOMAIN exam_links}]
               /\ fe_pc' = "rows"
    /\ UNCHANGED <<pipelineVars, histVars, logins, poolVars, clock, db, disk, runVars, threadVars,
                   folder, moodleFileVars, exam_filter, codes_todo, course_code,
                   searches, found, exam_links, total_downloads_exam>>

\* exambase.py:509-510: the duplicate test of download_exam_papers
ExamAlreadyExists(f) == Lower(f) \in exam_existing_files

\* exambase.py:444-516 and 547: the next row is skipped or its download is
\* issued; after the last row the call returns its count
ExamNextRow ==
    /\ fe_pc = "rows"
    /\ IF rows_todo = <<>>
       THEN /\ total_downloads_exam' = total_downloads_exam + download_count
            /\ course_folder' = 0
            /\ fe_pc' = "folders"
            /\ UNCHANGED rows_todo
       ELSE IF ExamAlreadyExists(ExamFilename(course_code, Head(rows_todo)))
       THEN /\ rows_todo' = Tail(rows_todo)
            /\ UNCHANGED <<fe_pc, course_folder, total_downloads_exam>>
       ELSE /\ fe_pc' = "request"
            /\ UNCHANGED <<rows_todo, course_folder, total_downloads_exam>>
    /\ UNCHANGED <<pipelineVars, histVars, logins, poolVars, clock, db, disk, runVars, threadVars,
                   folder, moodleFileVars, exam_filter, codes_todo, course_code,
                   searches, found, exam_links, folder_names,
                   exam_existing_files, download_count, e_saved, offered>>

\* exambase.py:522-528: the request fails, or the target file is opened for
\* writing
ExamOpenFile(ok) ==
    /\ fe_pc = "request"
    /\ IF ok
       THEN /\ folder' = [folder EXCEPT ![course_folder] =
                            @ \cup {ExamFilename(course_code, Head(rows_todo))}]
            /\ incomplete' = incomplete \cup
                               {<<course_folder, ExamFilename(course_code, Head(rows_todo))>>}
            /\ fe_pc' = "writing"
            /\ UNCHANGED rows_todo
       ELSE /\ rows_todo' = Tail(rows_todo)
            /\ fe_pc' = "rows"
            /\ UNCHANGED <<folder, incomplete>>
    /\ UNCHANGED <<nonPartialVars, histVars, logins, poolVars, clock, db, disk, runVars, threadVars,
                   moodleFileVars, exam_filter, codes_todo, course_code,
                   searches, found, exam_links, folder_names, course_folder,
                   exam_existing_files, download_count, e_saved, offered,
                   total_downloads_exam>>

\* exambase.py:528-541: the content is written and the file is counted; an
\* empty file is removed; a broken transfer leaves what was written
ExamCloseFile(outcome) ==
    /\ fe_pc = "writing"
    /\ LET f == ExamFilename(course_code, Head(rows_todo))
       IN CASE outcome = "saved" ->
                 /\ download_count' = download_count + 1
                 /\ e_saved' = Append(e_saved, f)
                 /\ incomplete' = incomplete \ {<<course_folder, f>>}
                 /\ UNCHANGED folder
            [] outcome = "empty" ->
                 /\ folder' = [folder EXCEPT ![course_folder] = @ \ {f}]
                 /\ incomplete' = incomplete \ {<<course_folder, f>>}
                 /\ UNCHANGED <<download_count, e_saved>>
            [] outcome = "failed" ->
                 /\ incomplete' = AfterBrokenTransfer(course_folder, f)
                 /\ UNCHANGED <<folder, download_count, e_saved>>
    /\ rows_todo' = Tail(rows_todo)
    /\ fe_pc' = "rows"
    /\ UNCHANGED <<nonPartialVars, histVars, logins, poolVars, clock, db, disk, runVars, threadVars,
                   moodleFileVars, exam_filter, codes_todo, course_code,
                   searches, found, exam_links, folder_names, course_folder,
                   exam_existing_files, offered, total_downloads_exam>>

\* ---- RecursiveDocumentChunker (rag/chunker.py) ------------------------------
\* A text is a sequence of one-character strings.  A line of the standardized
\* text is either a marker line ("=== Slide N ===" or "=== Page N ===", one
\* "=" in the scale of the model) or one sentence: letters closed by ".".

\* chunker.py:14-31: a configuration the constructor accepts,
\* 0 < min_tokens <= target_tokens <= max_tokens, 0 <= overlap_tokens < target_tokens
min_tokens == 1
target_tokens == 2
max_tokens == 3
overlap_tokens == 1
token_chars_ratio == 2

\* chunker.py:39-40
TokensToChars(tokens) == tokens * token_chars_ratio

MarkerLine == <<"=">>

SentenceLine(n) == [i \in 1 .. n |-> IF i = n THEN "." ELSE "x"]

\* the lines a standardized text is made of
TextLines == {MarkerLine} \cup {SentenceLine(n) : n \in SentenceLens}

\* chunker.py:34-35: _re_slide / _re_page match the stripped line
IsMarker(ln) == ln = MarkerLine

\* str.strip()
RECURSIVE LStrip(_)
LStrip(s) == IF s # <<>> /\ Head(s) = " " THEN LStrip(Tail(s)) ELSE s

RECURSIVE RStrip(_)
RStrip(s) ==
    IF s # <<>> /\ s[Len(s)] = " " THEN RStrip(SubSeq(s, 1, Len(s) - 1)) ELSE s

Strip(s) == RStrip(LStrip(s))

\* sep.join(parts)
RECURSIVE JoinWith(_, _)
JoinWith(sep, parts) ==
    IF parts = <<>> THEN <<>>
    ELSE IF Len(parts) = 1 THEN parts[1]
    ELSE parts[1] \o sep \o JoinWith(sep, Tail(parts))

\* s[-k:] for k > 0
LastChars(s, k) == IF Len(s) <= k THEN s ELSE SubSeq(s, Len(s) - k + 1, Len(s))

\* chunker.py:42-76: the lines before the first marker form a "DOC" block,
\* every marker opens a block that keeps the marker as its first line
RECURSIVE SplitFrom(_, _, _, _)
SplitFrom(lines, current, current_kind, blocks) ==
    LET flushed == IF current # <<>>
                   THEN Append(blocks, [kind |-> current_kind, lines |-> current])
                   ELSE blocks
    IN IF lines = <<>> THEN flushed
       ELSE IF IsMarker(Head(lines))
            THEN SplitFrom(Tail(lines), <<Head(lines)>>, "SLIDE", flushed)
            ELSE SplitFrom(Tail(lines), Append(current, Head(lines)), current_kind, blocks)

SplitByMarkersNever(lines) == <<[kind |-> "DOC", lines |-> lines]>>

SplitByMarkers(lines) == SplitFrom(lines, <<>>, "DOC", <<>>)

\* chunker.py:120-126: the text on one line, cut after every "." that is
\* followed by white space
RECURSIVE SplitSentences(_, _)
SplitSentences(s, current) ==
    IF s = <<>> THEN (IF Strip(current) # <<>> THEN <<Strip(current)>> ELSE <<>>)
    ELSE IF Head(s) = " " /\ current # <<>> /\ current[Len(current)] = "."
         THEN <<Strip(current)>> \o SplitSentences(Tail(s), <<>>)
         ELSE SplitSentences(Tail(s), Append(current, Head(s)))

\* chunker.py:203-218: a block without headings and blank lines is one
\* section and one paragraph
Sentences(block) == SplitSentences(JoinWith(<<" ">>, block.lines), <<>>)

\* chunker.py:163-173: the pieces of a hard split of frag from offset start
RECURSIVE HardSplit(_, _)
HardSplit(frag, start) ==
    LET frag_len == Len(frag)
        max_len == TokensToChars(max_tokens)
        overlap == TokensToChars(overlap_tokens)
        end == IF start + max_len < frag_len THEN start + max_len ELSE frag_len
        piece == SubSeq(frag, start + 1, end)
    IN IF start >= frag_len THEN <<>>
       ELSE (IF Strip(piece) # <<>> THEN <<Strip(piece)>> ELSE <<>>)
            \o HardSplit(frag, IF end < frag_len THEN end - overlap ELSE end)

\* chunker.py:153-155: the overlap tail of the chunk just appended
OverlapTail(cs) ==
    IF TokensToChars(overlap_tokens) > 0 /\ cs # <<>>
    THEN LastChars(cs[Len(cs)], TokensToChars(overlap_tokens))
    ELSE <<>>

Seed(tail) == IF tail # <<>> THEN <<tail>> ELSE <<>>

\* no document is being chunked
ChunkIdle ==
    /\ c_pc = "idle"
    /\ text = <<>>
    /\ top_blocks = <<>>
    /\ block_no = 0
    /\ fragments = <<>>
    /\ chunks = <<>>
    /\ buf = <<>>
    /\ buf_len = 0
    /\ result = <<>>

\* a standardized text of at most MaxLines lines is handed to chunk()
ChunkInit ==
    /\ c_pc = "chunk"
    /\ text \in UNION {[1 .. k -> TextLines] : k \in 1 .. MaxLines}
    /\ top_blocks = <<>>
    /\ block_no = 0
    /\ fragments = <<>>
    /\ chunks = <<>>
    /\ buf = <<>>
    /\ buf_len = 0
    /\ result = <<>>

\* chunker.py:194-201 and 203-218 for the first block
Chunk ==
    /\ c_pc = "chunk"
    /\ top_blocks' = SplitByMarkers(text)
    /\ block_no' = 1
    /\ fragments' = Sentences(top_blocks'[1])
    /\ chunks' = <<>>
    /\ buf' = <<>>
    /\ buf_len' = 0
    /\ c_pc' = "pack"
    /\ UNCHANGED <<text, result>>
    /\ UNCHANGED nonChunkVars

\* chunker.py:141-183: one iteration of the loop of _pack
PackFragment ==
    /\ c_pc = "pack"
    /\ fragments # <<>>
    /\ LET frag == Head(fragments)
           frag_len == Len(frag)
           target == TokensToChars(target_tokens)
           max_len == TokensToChars(max_tokens)
           min_len == TokensToChars(min_tokens)
           appended == Append(chunks, Strip(JoinWith(<<" ">>, buf)))
       IN IF buf_len = 0
          THEN /\ buf' = Append(buf, frag)
               /\ buf_len' = frag_len
               /\ UNCHANGED chunks
          ELSE IF buf_len + 1 + frag_len <= max_len
          THEN LET joined == Append(buf, frag)
                   closed == Append(chunks, Strip(JoinWith(<<" ">>, joined)))
               IN IF buf_len + 1 + frag_len >= target
                  THEN /\ chunks' = closed
                       /\ buf' = Seed(OverlapTail(closed))
                       /\ buf_len' = Len(OverlapTail(closed))
                  ELSE /\ buf' = joined
                       /\ buf_len' = buf_len + 1 + frag_len
                       /\ UNCHANGED chunks
          ELSE IF buf_len >= min_len
          THEN IF frag_len >= max_len
               THEN /\ chunks' = appended \o HardSplit(frag, 0)
                    /\ buf' = <<>>
                    /\ buf_len' = 0
               ELSE /\ chunks' = appended
                    /\ buf' = Append(Seed(OverlapTail(appended)), frag)
                    /\ buf_len' = frag_len
          ELSE LET forced == IF buf # <<>> THEN appended ELSE chunks
                   restart == Append(Seed(OverlapTail(forced)), frag)
               IN /\ chunks' = forced
                  /\ buf' = restart
                  /\ buf_len' = Len(JoinWith(<<" ">>, restart))
    /\ fragments' = Tail(fragments)
    /\ UNCHANGED <<c_pc, text, top_blocks, block_no, result>>
    /\ UNCHANGED nonChunkVars

\* chunker.py:185-192: the last buffer is merged back or appended
PackResult ==
    LET max_len == TokensToChars(max_tokens)
        min_len == TokensToChars(min_tokens)
        last == chunks[Len(chunks)]
        flushed ==
            IF buf_len > 0
            THEN IF chunks # <<>> /\ buf_len < min_len
                    /\ Len(last) + 1 + buf_len <= max_len
                 THEN [chunks EXCEPT ![Len(chunks)] =
                          Strip(last \o <<" ">> \o JoinWith(<<" ">>, buf))]
                 ELSE Append(chunks, Strip(JoinWith(<<" ">>, buf)))
            ELSE chunks
    IN SelectSeq(flushed, LAMBDA c : Strip(c) # <<>>)

\* chunker.py:219-220: result.extend(self._pack(sentences)), then the next
\* block or the return of chunk()
PackReturn ==
    /\ c_pc = "pack"
    /\ fragments = <<>>
    /\ result' = result \o [i \in 1 .. Len(PackResult) |->
                               [text |-> PackResult[i], block |-> block_no]]
    /\ chunks' = <<>>
    /\ buf' = <<>>
    /\ buf_len' = 0
    /\ IF block_no < Len(top_blocks)
       THEN /\ block_no' = block_no + 1
            /\ fragments' = Sentences(top_blocks[block_no + 1])
            /\ UNCHANGED c_pc
       ELSE /\ c_pc' = "done"
            /\ UNCHANGED <<block_no, fragments>>
    /\ UNCHANGED <<text, top_blocks>>
    /\ UNCHANGED nonChunkVars

\* ---- VectorEmbeddingsGenerator.generate_embeddings_for_files -----------------
\* embedder.py:39: effective_bs = min(batch_size, 10), two in the scale of
\* the model
effective_bs == 2

\* no ingestion is modelled
IngestIdle ==
    /\ g_pc = "idle"
    /\ file_paths = <<>>
    /\ file_no = 0
    /\ n_chunks = 0
    /\ batch_start = 0
    /\ all_vecs = 0
    /\ store = {}
    /\ files_success = 0
    /\ files_failed = 0
    /\ total_vectors = 0
    /\ bad_files = {}
    /\ failed_files = {}

\* embeddings_generator.py:65-93: a non-empty list of supported, existing
\* files of a known course; each file yields 1 .. MaxChunks chunks
IngestInit ==
    /\ g_pc = "loop"
    /\ file_paths \in UNION {[1 .. k -> 1 .. MaxChunks] : k \in 1 .. MaxFiles}
    /\ file_no = 0
    /\ n_chunks = 0
    /\ batch_start = 0
    /\ all_vecs = 0
    /\ store = {}
    /\ files_success = 0
    /\ files_failed = 0
    /\ total_vectors = 0
    /\ bad_files = {}
    /\ failed_files = {}

\* embeddings_generator.py:129-131: except Exception counts the file as failed
FileFailed(f) ==
    /\ files_failed' = files_failed + 1
    /\ failed_files' = failed_files \cup {f}
    /\ bad_files' = bad_files \cup {f}
    /\ g_pc' = "loop"
    /\ UNCHANGED <<store, files_success, total_vectors>>

\* embeddings_generator.py:96-119 over service.py:75-91 and 59-70: the next
\* file is standardized and chunked; an empty standardization raises
IngestFile(readable) ==
    /\ g_pc = "loop"
    /\ file_paths # <<>>
    /\ file_no' = file_no + 1
    /\ file_paths' = Tail(file_paths)
    /\ batch_start' = 0
    /\ all_vecs' = 0
    /\ IF readable
       THEN /\ n_chunks' = Head(file_paths)
            /\ g_pc' = "embed"
            /\ UNCHANGED <<store, files_success, files_failed, total_vectors,
                           bad_files, failed_files>>
       ELSE /\ n_chunks' = 0
            /\ FileFailed(file_no + 1)
    /\ UNCHANGED nonIngestVars

\* embedder.py:40-50: one batch is posted; a status other than 200 raises
\* HTTPError, a 200 response adds as many vectors as its "data" holds
EmbedBatch(status_ok, returned) ==
    /\ g_pc = "embed"
    /\ LET batch == IF n_chunks - batch_start < effective_bs
                    THEN n_chunks - batch_start ELSE effective_bs
       IN /\ returned \in 0 .. batch
          /\ IF status_ok
             THEN /\ all_vecs' = all_vecs + returned
                  /\ batch_start' = batch_start + batch
                  /\ g_pc' = IF batch_start + batch >= n_chunks THEN "add" ELSE "embed"
                  /\ UNCHANGED <<store, files_success, files_failed, total_vectors,
                                 bad_files, failed_files>>
             ELSE /\ returned = 0
                  /\ FileFailed(file_no)
                  /\ UNCHANGED <<all_vecs, batch_start>>
    /\ UNCHANGED <<file_paths, file_no, n_chunks>>
    /\ UNCHANGED nonIngestVars

\* vector_store.py:30-46 with service.py:72-73 and
\* embeddings_generator.py:121-126: add_chunks returns at once when there
\* are no vectors, raises ValueError when the counts differ, and else adds
\* the vectors; when it returns the file is counted in files_success
AddChunks ==
    /\ g_pc = "add"
    /\ IF all_vecs = 0
       THEN /\ files_success' = files_success + 1
            /\ bad_files' = bad_files \cup {file_no}
            /\ g_pc' = "loop"
            /\ UNCHANGED <<store, files_failed, total_vectors, failed_files>>
       ELSE IF all_vecs # n_chunks
       THEN FileFailed(file_no)
       ELSE /\ store' = store \cup {<<file_no, all_vecs>>}
            /\ total_vectors' = total_vectors + all_vecs
            /\ files_success' = files_success + 1
            /\ g_pc' = "loop"
            /\ UNCHANGED <<files_failed, bad_files, failed_files>>
    /\ UNCHANGED <<file_paths, file_no, n_chunks, batch_start, all_vecs>>
    /\ UNCHANGED nonIngestVars

\* embeddings_generator.py:133-145
GenerateReturn ==
    /\ g_pc = "loop"
    /\ file_paths = <<>>
    /\ g_pc' = "done"
    /\ UNCHANGED <<file_paths, file_no, n_chunks, batch_start, all_vecs, store,
                   files_success, files_failed, total_vectors, bad_files, failed_files>>
    /\ UNCHANGED nonIngestVars

\* ---- the folders of a cold start ---------------------------------------------
\* the course folders of one run, and the two source threads of scrape_all
\* (scraper.py:95-119)
MkFolders == {"COMP7103", "MATH1013"}
MkThreads == {"moodle", "exambase"}

\* no folder creation is modelled
MkdirIdle ==
    /\ mk_dirs = {}
    /\ mk_pc = [t \in MkThreads |-> "idle"]
    /\ mk_todo = [t \in MkThreads |-> <<>>]
    /\ mk_result = [t \in MkThreads |-> "running"]

\* scraper.py:107-119: both threads were started on a store in which the
\* root may exist and no course folder does; the Moodle thread is at the
\* test of base_dir (moodle.py:338), the Exambase thread at the test of
\* its first course folder (exambase.py:425); each handles the run's
\* courses in its own order
MkdirInit ==
    /\ mk_dirs \in {{}, {"root"}}
    /\ mk_pc = [t \in MkThreads |-> IF t = "moodle" THEN "base_exists" ELSE "exists"]
    /\ mk_todo \in [MkThreads -> {<<"COMP7103">>, <<"COMP7103", "MATH1013">>,
                                    <<"MATH1013", "COMP7103">>}]
    /\ mk_result = [t \in MkThreads |-> "running"]

\* os.makedirs(path) without exist_ok: it raises FileExistsError when the
\* leaf exists and else creates the leaf and every missing parent
MakedirsRaises(path) == path \in mk_dirs

DirsAfterMakedirs(path) == mk_dirs \cup {path, "root"}

\* moodle.py:338: if not os.path.exists(base_dir)
BaseExists ==
    /\ mk_pc["moodle"] = "base_exists"
    /\ mk_pc' = [mk_pc EXCEPT !["moodle"] =
                    IF "root" \in mk_dirs THEN "exists" ELSE "base_makedirs"]
    /\ UNCHANGED <<mk_dirs, mk_todo, mk_result>>
    /\ UNCHANGED nonMkdirVars

\* moodle.py:339: os.makedirs(base_dir); the exception leaves
\* download_all_courses and _scrape_moodle returns success False
\* (scraper.py:224-238)
BaseMakedirs ==
    /\ mk_pc["moodle"] = "base_makedirs"
    /\ IF MakedirsRaises("root")
       THEN /\ mk_result' = [mk_result EXCEPT !["moodle"] = "failed"]
            /\ mk_pc' = [mk_pc EXCEPT !["moodle"] = "done"]
            /\ UNCHANGED mk_dirs
       ELSE /\ mk_dirs' = DirsAfterMakedirs("root")
            /\ mk_pc' = [mk_pc EXCEPT !["moodle"] = "exists"]
            /\ UNCHANGED mk_result
    /\ UNCHANGED mk_todo
    /\ UNCHANGED nonMkdirVars

\* moodle.py:390 and exambase.py:425: if not os.path.exists(course folder);
\* after the last course the source returns its stats
CourseDirExists(t) ==
    /\ mk_pc[t] = "exists"
    /\ IF mk_todo[t] = <<>>
       THEN /\ mk_pc' = [mk_pc EXCEPT ![t] = "done"]
            /\ mk_result' = [mk_result EXCEPT ![t] = "ok"]
       ELSE /\ mk_pc' = [mk_pc EXCEPT ![t] =
                           IF Head(mk_todo[t]) \in mk_dirs THEN "scrape" ELSE "makedirs"]
            /\ UNCHANGED mk_result
    /\ UNCHANGED <<mk_dirs, mk_todo>>
    /\ UNCHANGED nonMkdirVars

\* moodle.py:391 and exambase.py:426: os.makedirs(course folder); the
\* exception is caught by no handler below _scrape_moodle and
\* _scrape_exambase (scraper.py:224-238, 438-452), which return success False
CourseMakedirs(t) ==
    /\ mk_pc[t] = "makedirs"
    /\ IF MakedirsRaises(Head(mk_todo[t]))
       THEN /\ mk_result' = [mk_result EXCEPT ![t] = "failed"]
            /\ mk_pc' = [mk_pc EXCEPT ![t] = "done"]
            /\ UNCHANGED mk_dirs
       ELSE /\ mk_dirs' = DirsAfterMakedirs(Head(mk_todo[t]))
            /\ mk_pc' = [mk_pc EXCEPT ![t] = "scrape"]
            /\ UNCHANGED mk_result
    /\ UNCHANGED mk_todo
    /\ UNCHANGED nonMkdirVars

\* moodle.py:395-670 and exambase.py:429-556: the files of the course are
\* downloaded into its folder
ScrapeIntoDir(t) ==
    /\ mk_pc[t] = "scrape"
    /\ mk_todo' = [mk_todo EXCEPT ![t] = Tail(@)]
    /\ mk_pc' = [mk_pc EXCEPT ![t] = "exists"]
    /\ UNCHANGED <<mk_dirs, mk_result>>
    /\ UNCHANGED nonMkdirVars

\* ---- browsers created outside the worker pool ------------------------------
\* course_filter of the Exambase thread: course names in the order in which
\* they are parsed (scraper.py:493)
MaxFilter == 2
Filters == UNION {[1 .. k -> Folders] : k \in 1 .. MaxFilter}

\* no parallel scrape is modelled
ContextIdle ==
    /\ x_pc = [t \in MkThreads |-> "idle"]
    /\ contexts = {}
    /\ contexts_made = 0
    /\ list_scraper = 0
    /\ x_filter = <<>>
    /\ course_list_len = 0

\* scraper.py:107-119 with parallel_workers > 1: both source threads enter
\* their parallel path with a non-empty course_filter
ContextInit ==
    /\ x_pc = [t \in MkThreads |-> IF t = "moodle" THEN "new" ELSE "parse"]
    /\ contexts = {}
    /\ contexts_made = 0
    /\ list_scraper = 0
    /\ x_filter \in Filters
    /\ course_list_len = 0

\* scraper.py:274: HKUMoodleScraper(...) starts a browser (moodle.py:33);
\* an exception goes to the handler of line 343, which returns the stats
NewListScraper(raised) ==
    /\ x_pc["moodle"] = "new"
    /\ IF raised
       THEN /\ x_pc' = [x_pc EXCEPT !["moodle"] = "returned"]
            /\ UNCHANGED <<contexts, contexts_made, list_scraper>>
       ELSE /\ contexts' = contexts \cup {contexts_made + 1}
            /\ contexts_made' = contexts_made + 1
            /\ list_scraper' = contexts_made + 1
            /\ x_pc' = [x_pc EXCEPT !["moodle"] = "get_courses"]
    /\ UNCHANGED <<x_filter, course_list_len>>
    /\ UNCHANGED nonContextVars

\* scraper.py:276-289 and 343-359: connect_moodle returns, then get_courses
\* lists courses, lists none (the scraper is closed and the stats returned)
\* or raises (the handler returns the stats and closes nothing)
ListCourses(outcome) ==
    /\ x_pc["moodle"] = "get_courses"
    /\ CASE outcome = "courses" ->
              /\ x_pc' = [x_pc EXCEPT !["moodle"] = "close"]
              /\ UNCHANGED contexts
         [] outcome = "none" ->
              /\ x_pc' = [x_pc EXCEPT !["moodle"] = "returned"]
              /\ contexts' = contexts \ {list_scraper}
         [] outcome = "raised" ->
              /\ x_pc' = [x_pc EXCEPT !["moodle"] = "returned"]
              /\ UNCHANGED contexts
    /\ UNCHANGED <<contexts_made, list_scraper, x_filter, course_list_len>>
    /\ UNCHANGED nonContextVars

\* scraper.py:309: scraper.close() before the pool is started
CloseListScraper ==
    /\ x_pc["moodle"] = "close"
    /\ contexts' = contexts \ {list_scraper}
    /\ x_pc' = [x_pc EXCEPT !["moodle"] = "pool"]
    /\ UNCHANGED <<contexts_made, list_scraper, x_filter, course_list_len>>
    /\ UNCHANGED nonContextVars

\* scraper.py:311-341 and 569-597: the parallel downloader runs and the
\* stats are returned
ParallelDownload(t) ==
    /\ x_pc[t] = "pool"
    /\ x_pc' = [x_pc EXCEPT ![t] = "returned"]
    /\ UNCHANGED <<contexts, contexts_made, list_scraper, x_filter, course_list_len>>
    /\ UNCHANGED nonContextVars

\* scraper.py:499-501: scraper_temp is used for _sanitize_filename and then
\* dropped; its browser stays open
ContextsAfterTemp(id) == contexts \cup {id}

\* scraper.py:493-514 (and exambase.py:571-584): for a name with a course
\* code a HKUMoodleScraper is constructed, which starts a browser, only to
\* call _sanitize_filename; nothing closes it.  An empty course_list
\* returns the stats
ParseFilter(raised) ==
    /\ x_pc["exambase"] = "parse"
    /\ IF x_filter = <<>>
       THEN /\ ~raised
            /\ x_pc' = [x_pc EXCEPT !["exambase"] =
                           IF course_list_len = 0 THEN "returned" ELSE "pool"]
            /\ UNCHANGED <<contexts, contexts_made, x_filter, course_list_len>>
       ELSE IF CourseCode(Head(x_filter)) = ""
       THEN /\ ~raised
            /\ x_filter' = Tail(x_filter)
            /\ UNCHANGED <<x_pc, contexts, contexts_made, course_list_len>>
       ELSE IF raised
       THEN /\ x_pc' = [x_pc EXCEPT !["exambase"] = "returned"]
            /\ UNCHANGED <<contexts, contexts_made, x_filter, course_list_len>>
       ELSE /\ contexts' = ContextsAfterTemp(contexts_made + 1)
            /\ contexts_made' = contexts_made + 1
            /\ course_list_len' = course_list_len + 1
            /\ x_filter' = Tail(x_filter)
            /\ UNCHANGED x_pc
    /\ UNCHANGED list_scraper
    /\ UNCHANGED nonContextVars

\* ---- the hard-split loop of _pack -------------------------------------------
\* token_chars_ratio is a float; the model has the ratios num / den
Ratios == {<<1, 2>>, <<1, 1>>, <<2, 1>>}

\* chunker.py:22-25: the configurations the constructor accepts, with token
\* counts up to MaxTokens
Accepted ==
    {c \in [min_tokens : 1 .. MaxTokens, target_tokens : 1 .. MaxTokens,
            max_tokens : 1 .. MaxTokens, overlap_tokens : 0 .. MaxTokens,
            ratio : Ratios] :
        /\ 0 < c.min_tokens
        /\ c.min_tokens <= c.target_tokens
        /\ c.target_tokens <= c.max_tokens
        /\ ~(c.overlap_tokens < 0 \/ c.overlap_tokens >= c.target_tokens)}

\* chunker.py:39-40: int(tokens * self.token_chars_ratio)
ConfigTokensToChars(c, tokens) == (tokens * c.ratio[1]) \div c.ratio[2]

\* no hard split is modelled
SplitIdle ==
    /\ hs_pc = "idle"
    /\ hs_config = [min_tokens |-> 1, target_tokens |-> 1, max_tokens |-> 1,
                    overlap_tokens |-> 0, ratio |-> <<1, 1>>]
    /\ hs_frag_len = 0
    /\ hs_start = 0
    /\ hs_iter = 0

\* chunker.py:163-166: _pack reaches the hard split with a non-empty
\* fragment of frag_len >= max_len; start = 0
SplitInit ==
    /\ hs_pc = "split"
    /\ hs_config \in Accepted
    /\ hs_frag_len \in 1 .. MaxFragLen
    /\ hs_frag_len >= ConfigTokensToChars(hs_config, hs_config.max_tokens)
    /\ hs_start = 0
    /\ hs_iter = 0

\* chunker.py:172: start = end - overlap if end < frag_len else end
NextStart(end_, overlap) == IF end_ < hs_frag_len THEN end_ - overlap ELSE end_

\* chunker.py:167-172: one iteration of `while start < frag_len`
HardSplitStep ==
    /\ hs_pc = "split"
    /\ hs_start < hs_frag_len
    /\ hs_iter < MaxIter
    /\ LET max_len == ConfigTokensToChars(hs_config, hs_config.max_tokens)
           overlap == ConfigTokensToChars(hs_config, hs_config.overlap_tokens)
           end_ == IF hs_start + max_len < hs_frag_len
                   THEN hs_start + max_len ELSE hs_frag_len
       IN hs_start' = NextStart(end_, overlap)
    /\ hs_iter' = hs_iter + 1
    /\ UNCHANGED <<hs_pc, hs_config, hs_frag_len>>
    /\ UNCHANGED nonSplitVars

\* chunker.py:167 and 173-174: the loop test fails, buf is emptied
HardSplitEnd ==
    /\ hs_pc = "split"
    /\ ~(hs_start < hs_frag_len)
    /\ hs_pc' = "done"
    /\ UNCHANGED <<hs_config, hs_frag_len, hs_start, hs_iter>>
    /\ UNCHANGED nonSplitVars

\* ---- from the course folder back to the course id ---------------------------
\* A course name is a sequence of one-character strings: a letter, a
\* character that is invalid in a file name (":"), or a blank.
NameChars == {"a", ":", " "}

\* moodle.py:807: invalid_chars = '<>:"/\\|?*'
invalid_chars == {":"}

\* moodle.py:812-813: the length limit, 200 in the code
NameLimit == 3

\* the names of the courses table: not empty, without blanks at the ends
CourseNames ==
    {n \in UNION {[1 .. k -> NameChars] : k \in 1 .. MaxName} : Strip(n) = n}

\* moodle.py:799-818: invalid characters become "_", the name is cut to the
\* limit and stripped
SanitizeFilename(filename) ==
    LET replaced == [i \in DOMAIN filename |->
                        IF filename[i] \in invalid_chars THEN "_" ELSE filename[i]]
        limited == IF Len(replaced) > NameLimit
                   THEN SubSeq(replaced, 1, NameLimit) ELSE replaced
    IN Strip(limited)

\* dao/course.py:73-87: SELECT id FROM courses WHERE course_name = %s LIMIT 1
FindIdByCourseName(course_name) ==
    LET ids == {i \in DOMAIN lk_courses : lk_courses[i] = course_name}
    IN IF ids = {} THEN None ELSE Some(CHOOSE i \in ids : \A j \in ids : i <= j)

\* no lookup is modelled
LookupIdle ==
    /\ lk_pc = "idle"
    /\ lk_courses = <<>>
    /\ lk_course = 0
    /\ lk_folder = <<>>
    /\ lk_id = None

\* the courses table holds one or two courses with different names; one of
\* them is scraped
LookupInit ==
    /\ lk_pc = "download"
    /\ lk_courses \in {t \in UNION {[1 .. k -> CourseNames] : k \in 1 .. 2} :
                          \A i, j \in DOMAIN t : i # j => t[i] # t[j]}
    /\ lk_course \in DOMAIN lk_courses
    /\ lk_folder = <<>>
    /\ lk_id = None

\* moodle.py:387-389 and 641-643: the file of the course is saved under
\* knowledge_base/<sanitized course name>/ and its absolute path recorded;
\* embeddings_generator.py:188-200: the folder name is taken from the path
DownloadIntoFolder ==
    /\ lk_pc = "download"
    /\ lk_folder' = SanitizeFilename(lk_courses[lk_course])
    /\ lk_pc' = "lookup"
    /\ UNCHANGED <<lk_courses, lk_course, lk_id>>
    /\ UNCHANGED nonLookupVars

\* embeddings_generator.py:77-89 and 36-47: the folder name is looked up as a
\* course name; without an id the files of the folder are skipped
GetCourseId ==
    /\ lk_pc = "lookup"
    /\ lk_id' = FindIdByCourseName(lk_folder)
    /\ lk_pc' = "done"
    /\ UNCHANGED <<lk_courses, lk_course, lk_folder>>
    /\ UNCHANGED nonLookupVars

\* ---- connect_moodle and ExambaseScraper.login -----------------------------
\* moodle.py:86 and exambase.py:95
max_retries == 3

\* no login call is modelled
RetryIdle ==
    /\ l_pc = "idle"
    /\ l_source = "moodle"
    /\ username_ok = TRUE
    /\ attempt = 0
    /\ driver = 0
    /\ drivers_made = 0
    /\ live = {}
    /\ browser_log = <<>>
    /\ login_ret = None

\* moodle.py:18-33 and exambase.py:26-46: the constructor created the first
\* browser; the call is about to start
RetryInit ==
    /\ l_pc = "call"
    /\ l_source \in {"moodle", "exambase"}
    /\ username_ok \in BOOLEAN
    /\ attempt = 0
    /\ driver = 1
    /\ drivers_made = 1
    /\ live = {1}
    /\ browser_log = <<>>
    /\ login_ret = None

\* moodle.py:82-87 and exambase.py:93-97: connect_moodle returns 0 for a
\* username that is no HKU address, login has no such test; the loop starts
\* with attempt 1, which restarts nothing
LoginCall ==
    /\ l_pc = "call"
    /\ IF l_source = "moodle" /\ ~username_ok
       THEN /\ l_pc' = "done"
            /\ login_ret' = Some("failed")
            /\ UNCHANGED attempt
       ELSE /\ l_pc' = "steps"
            /\ attempt' = 1
            /\ UNCHANGED login_ret
    /\ UNCHANGED <<l_source, username_ok, driver, drivers_made, live, browser_log>>
    /\ UNCHANGED nonRetryVars

\* an except clause that only gives up after one attempt more
AttemptFailedOnceMore ==
    IF attempt > max_retries
    THEN /\ l_pc' = "done"
         /\ login_ret' = Some("failed")
         /\ UNCHANGED attempt
    ELSE /\ l_pc' = "restart"
         /\ attempt' = attempt + 1
         /\ UNCHANGED login_ret

\* moodle.py:239-254 and exambase.py:229-244: the except clause of an
\* attempt returns after the last attempt and else goes on to the next one
AttemptFailed ==
    IF attempt >= max_retries
    THEN /\ l_pc' = "done"
         /\ login_ret' = Some("failed")
         /\ UNCHANGED attempt
    ELSE /\ l_pc' = "restart"
         /\ attempt' = attempt + 1
         /\ UNCHANGED login_ret

\* moodle.py:91-101 and exambase.py:99-109: an attempt after the first calls
\* driver.quit(), whose exception is swallowed, and _initialize_driver(),
\* whose exception fails the attempt
RestartBrowser(quit_raises, init_raises) ==
    /\ l_pc = "restart"
    /\ IF init_raises
       THEN /\ browser_log' = browser_log \o <<<<"quit", attempt, driver>>>>
            /\ live' = IF quit_raises THEN live ELSE live \ {driver}
            /\ AttemptFailed
            /\ UNCHANGED <<driver, drivers_made>>
       ELSE /\ browser_log' = browser_log \o <<<<"quit", attempt, driver>>,
                                               <<"new", attempt, drivers_made + 1>>>>
            /\ live' = (IF quit_raises THEN live ELSE live \ {driver})
                           \cup {drivers_made + 1}
            /\ driver' = drivers_made + 1
            /\ drivers_made' = drivers_made + 1
            /\ l_pc' = "steps"
            /\ UNCHANGED <<attempt, login_ret>>
    /\ UNCHANGED <<l_source, username_ok>>
    /\ UNCHANGED nonRetryVars

\* moodle.py:103-237 and exambase.py:111-227: the login steps of one
\* attempt either return the success or raise
LoginSteps(ok) ==
    /\ l_pc = "steps"
    /\ browser_log' = browser_log \o
                        <<<<IF ok THEN "login_ok" ELSE "login_failed", attempt, driver>>>>
    /\ IF ok
       THEN /\ l_pc' = "done"
            /\ login_ret' = Some("ok")
            /\ UNCHANGED attempt
       ELSE AttemptFailed
    /\ UNCHANGED <<l_source, username_ok, driver, drivers_made, live>>
    /\ UNCHANGED nonRetryVars

\* ---- specifications ------------------------------------------------------

\* the courses table of a store in which nothing was scraped yet
EmptyTables == {[c \in Courses |-> [moodle |-> None, exambase |-> None]]}

\* nothing of the ingestion pipeline is modelled
PipelineIdle == ChunkIdle /\ IngestIdle /\ RetryIdle /\ MkdirIdle /\ ContextIdle /\ SplitIdle /\ LookupIdle

Init ==
    /\ course_rows \in StoredCourses
    /\ RunInit(InitialTables, StoredEnrollments)
    /\ PoolIdle /\ FilesIdle /\ PipelineIdle

InitAgain ==
    /\ course_rows \in InitialCourses
    /\ RunInit(InitialTables, InitialEnrollments)
    /\ \A u \in Users : user_courses[u] \subseteq course_rows
    /\ PoolIdle /\ FilesIdle /\ PipelineIdle

InitPool ==
    /\ course_rows \in StoredCourses
    /\ RunInit(EmptyTables, StoredEnrollments)
    /\ PoolInit /\ FilesIdle /\ PipelineIdle

InitFiles ==
    /\ course_rows \in StoredCourses
    /\ RunInit(EmptyTables, StoredEnrollments)
    /\ PoolIdle /\ FilesInit /\ PipelineIdle

Next ==
    \/ Tick
    \/ \E u \in Users : GetUserCourses(u)
    \/ \E u \in Users : GetCoursesNeedUpdate(u)
    \/ \E u \in Users : MoodleSkip(u)
    \/ \E u \in Users : MoodleLoginStart(u)
    \/ \E u \in Users, ok \in BOOLEAN : MoodleLoginEnd(u, ok)
    \/ \E u \in Users, listed \in SUBSET Courses, raised \in BOOLEAN,
          got \in SUBSET (Courses \X {"moodle"}) : MoodleScrape(u, listed, raised, got)
    \/ \E u \in Users : ExambaseSkip(u)
    \/ \E u \in Users : ExambaseLoginStart(u)
    \/ \E u \in Users, ok \in BOOLEAN : ExambaseLoginEnd(u, ok)
    \/ \E u \in Users, got \in SUBSET (Courses \X {"exambase"}) : ExambaseDownload(u, got)
    \/ \E u \in Users : Join(u)
    \/ \E u \in Users : BeginUpdateTimestamps(u)
    \/ \E u \in Users, raised \in BOOLEAN : WriteMoodleTime(u, raised)
    \/ \E u \in Users, raised \in BOOLEAN : WriteExambaseTime(u, raised)
    \/ \E u \in Users : Return(u)

Spec == Init /\ [][Next]_vars

\* the user whose calls SpecAgain follows from the first call on
Callers == {2}

NextAgain ==
    \/ Tick
    \/ \E u \in Callers : GetUserCourses(u)
    \/ \E u \in Callers : BootstrapLoginStart(u)
    \/ \E u \in Callers, ok \in BOOLEAN, unknown \in BOOLEAN,
          before \in SUBSET Courses : Bootstrap(u, ok, unknown, before)
    \/ \E u \in Callers : GetCoursesNeedUpdate(u)
    \/ \E u \in Callers : MoodleSkip(u)
    \/ \E u \in Callers : MoodleLoginStart(u)
    \/ \E u \in Callers, ok \in BOOLEAN : MoodleLoginEnd(u, ok)
    \/ \E u \in Callers, listed \in SUBSET Courses, raised \in BOOLEAN,
          got \in SUBSET (Courses \X {"moodle"}) : MoodleScrape(u, listed, raised, got)
    \/ \E u \in Callers : ExambaseSkip(u)
    \/ \E u \in Callers : ExambaseLoginStart(u)
    \/ \E u \in Callers, ok \in BOOLEAN : ExambaseLoginEnd(u, ok)
    \/ \E u \in Callers, got \in SUBSET (Courses \X {"exambase"}) : ExambaseDownload(u, got)
    \/ \E u \in Callers : Join(u)
    \/ \E u \in Callers : BeginUpdateTimestamps(u)
    \/ \E u \in Callers, raised \in BOOLEAN : WriteMoodleTime(u, raised)
    \/ \E u \in Callers, raised \in BOOLEAN : WriteExambaseTime(u, raised)
    \/ \E u \in Callers : Return(u)
    \/ \E u \in Callers : UpdateKnowledgeBaseAgain(u)

SpecAgain == InitAgain /\ [][NextAgain]_vars

NextPool ==
    \/ KeyboardInterrupt
    \/ \E n \in 0 .. MaxTasks, nlp \in SUBSET Tasks : Dispatch(n, nlp)
    \/ \E w \in Workers, raised \in BOOLEAN : CreateScraper(w, raised)
    \/ \E w \in Workers : AcquireLoginLock(w)
    \/ \E w \in Workers, ok \in BOOLEAN : WorkerLogin(w, ok)
    \/ \E w \in Workers : TestQueueEmpty(w)
    \/ \E w \in Workers : GetTask(w)
    \/ \E w \in Workers, n \in 0 .. 1, raised \in BOOLEAN : ProcessTask(w, n, raised)
    \/ \E w \in Workers : WorkerFinally(w)
    \/ JoinTasks
    \/ JoinThreads
    \/ CollectResults

SpecPool == InitPool /\ [][NextPool]_vars

\* parallel.py:297-304 and 453-460: every worker is a started thread, so a
\* worker that can take the lock or is inside its login step is eventually
\* run; the login step itself ends (connect_moodle and login return after
\* at most max_retries attempts)
PoolFairness ==
    \A w \in Workers :
        /\ WF_vars(AcquireLoginLock(w))
        /\ WF_vars(\E ok \in BOOLEAN : WorkerLogin(w, ok))

SpecPoolFair == SpecPool /\ PoolFairness

NextFiles ==
    \/ \E links \in SeqsUpTo(MoodleFiles, MaxLinks) : MoodleStartCourse(links)
    \/ MoodleNextLink
    \/ \E ok \in BOOLEAN : MoodleOpenFile(ok)
    \/ \E ok \in BOOLEAN : MoodleCloseFile(ok)
    \/ ExamStart
    \/ \E code \in Codes : \E links \in SeqsUpTo(ExamRows(code), MaxPapers) :
          ExamSearch(code, links)
    \/ ExamReturn
    \/ DownloadExamPapers
    \/ ExamNextRow
    \/ \E ok \in BOOLEAN : ExamOpenFile(ok)
    \/ \E outcome \in {"saved", "empty", "failed"} : ExamCloseFile(outcome)

SpecFiles == InitFiles /\ [][NextFiles]_vars

InitChunk ==
    /\ course_rows \in StoredCourses
    /\ RunInit(EmptyTables, StoredEnrollments)
    /\ PoolIdle /\ FilesIdle /\ ChunkInit /\ IngestIdle /\ RetryIdle /\ MkdirIdle /\ ContextIdle /\ SplitIdle /\ LookupIdle

NextChunk ==
    \/ Chunk
    \/ PackFragment
    \/ PackReturn

SpecChunk == InitChunk /\ [][NextChunk]_vars

InitIngest ==
    /\ course_rows \in StoredCourses
    /\ RunInit(EmptyTables, StoredEnrollments)
    /\ PoolIdle /\ FilesIdle /\ ChunkIdle /\ IngestInit /\ RetryIdle /\ MkdirIdle /\ ContextIdle /\ SplitIdle /\ LookupIdle

NextIngest ==
    \/ \E readable \in BOOLEAN : IngestFile(readable)
    \/ \E status_ok \in BOOLEAN, returned \in 0 .. effective_bs :
          EmbedBatch(status_ok, returned)
    \/ AddChunks
    \/ GenerateReturn

SpecIngest == InitIngest /\ [][NextIngest]_vars

\* one call of connect_moodle or of ExambaseScraper.login
InitRetry ==
    /\ course_rows \in StoredCourses
    /\ RunInit(EmptyTables, StoredEnrollments)
    /\ PoolIdle /\ FilesIdle /\ ChunkIdle /\ IngestIdle /\ RetryInit /\ MkdirIdle /\ ContextIdle /\ SplitIdle /\ LookupIdle

NextRetry ==
    \/ LoginCall
    \/ \E quit_raises \in BOOLEAN, init_raises \in BOOLEAN :
          RestartBrowser(quit_raises, init_raises)
    \/ \E ok \in BOOLEAN : LoginSteps(ok)

SpecRetry == InitRetry /\ [][NextRetry]_vars

\* the two source threads of one cold start
InitMkdir ==
    /\ course_rows \in StoredCourses
    /\ RunInit(EmptyTables, StoredEnrollments)
    /\ PoolIdle /\ FilesIdle /\ ChunkIdle /\ IngestIdle /\ RetryIdle /\ MkdirInit /\ ContextIdle /\ SplitIdle /\ LookupIdle

NextMkdir ==
    \/ BaseExists
    \/ BaseMakedirs
    \/ \E t \in MkThreads : CourseDirExists(t)
    \/ \E t \in MkThreads : CourseMakedirs(t)
    \/ \E t \in MkThreads : ScrapeIntoDir(t)

SpecMkdir == InitMkdir /\ [][NextMkdir]_vars

\* the two source threads of scrape_all on their parallel paths
InitContext ==
    /\ course_rows \in StoredCourses
    /\ RunInit(EmptyTables, StoredEnrollments)
    /\ PoolIdle /\ FilesIdle /\ ChunkIdle /\ IngestIdle /\ RetryIdle /\ MkdirIdle
    /\ ContextInit /\ SplitIdle /\ LookupIdle

NextContext ==
    \/ \E raised \in BOOLEAN : NewListScraper(raised)
    \/ \E outcome \in {"courses", "none", "raised"} : ListCourses(outcome)
    \/ CloseListScraper
    \/ \E t \in MkThreads : ParallelDownload(t)
    \/ \E raised \in BOOLEAN : ParseFilter(raised)

SpecContext == InitContext /\ [][NextContext]_vars

\* the hard split of one fragment under every accepted configuration
InitSplit ==
    /\ course_rows \in StoredCourses
    /\ RunInit(EmptyTables, StoredEnrollments)
    /\ PoolIdle /\ FilesIdle /\ ChunkIdle /\ IngestIdle /\ RetryIdle /\ MkdirIdle
    /\ ContextIdle /\ SplitInit /\ LookupIdle

NextSplit ==
    \/ HardSplitStep
    \/ HardSplitEnd

SpecSplit == InitSplit /\ [][NextSplit]_vars

\* one downloaded file on its way to the vector store
InitLookup ==
    /\ course_rows \in StoredCourses
    /\ RunInit(EmptyTables, StoredEnrollments)
    /\ PoolIdle /\ FilesIdle /\ ChunkIdle /\ IngestIdle /\ RetryIdle /\ MkdirIdle
    /\ ContextIdle /\ SplitIdle /\ LookupInit

NextLookup ==
    \/ DownloadIntoFolder
    \/ GetCourseId

SpecLookup == InitLookup /\ [][NextLookup]_vars

\* ---- properties ----------------------------------------------------------

\* the source threads of one run that are inside an interactive login
LoggingIn(u) ==
    {s \in Sources : \/ s = "moodle" /\ mpc[u] = "login"
                     \/ s = "exambase" /\ epc[u] = "login"}

\* C1: during one scrape run at most one interactive login (connect_moodle
\* or ExambaseScraper.login) is in progress at any instant.
C1_AtMostOneLoginInProgress ==
    \A u \in Users : Cardinality(LoggingIn(u)) <= 1

\* scrape_all has returned to update_knowledge_base
Scraped(u) == pc[u] \in {"step4", "timestamps", "done"} /\ mstats[u].returned

WrittenFor(u, s) == {w \in written[u] : w[2] = s}

\* C2: when a source's stats carry success = false, the run writes no
\* freshness timestamp of that source.
C2_FailedSourceKeepsTimestamps ==
    \A u \in Users :
        /\ (mstats[u].returned /\ ~mstats[u].success) => WrittenFor(u, "moodle") = {}
        /\ (estats[u].returned /\ ~estats[u].success) => WrittenFor(u, "exambase") = {}

\* C3: the success flag returned by scrape_all is true if and only if
\* neither the Moodle stats nor the Exambase stats report a failure.
C3_SuccessIffNoSourceFailure ==
    \A u \in Users :
        Scraped(u) => (success[u] <=> (mstats[u].success /\ estats[u].success))

\* C4: a freshness timestamp of (course, source) is written in a run only
\* if that source's scrape processed that course in that run.
C4_OnlyProcessedCoursesAdvance ==
    \A u \in Users : \A w \in written[u] :
        w[1] \in (IF w[2] = "moodle" THEN mProcessed[u] ELSE eProcessed[u])

\* the due lists of the run have been computed
Checked(u) == pc[u] \notin {"idle", "bootstrap", "check"} /\ courses[u] # {}

\* C5: a course is in the Moodle (Exambase) due list if and only if its
\* Moodle (Exambase) timestamp is null or the one now of the invocation
\* minus the timestamp is strictly greater than 24 hours (30 days).
C5_DueIffNullOrStrictlyOlder ==
    \A u \in Users : Checked(u) =>
        /\ moodle_courses[u] \subseteq courses[u]
        /\ exambase_courses[u] \subseteq courses[u]
        /\ \A c \in courses[u] :
              /\ c \in moodle_courses[u] <=>
                    \/ seen[u][c].moodle = None
                    \/ \E t \in seen[u][c].moodle :
                          now[u] - t > MOODLE_UPDATE_THRESHOLD
              /\ c \in exambase_courses[u] <=>
                    \/ seen[u][c].exambase = None
                    \/ \E t \in seen[u][c].exambase :
                          now[u] - t > EXAMBASE_UPDATE_THRESHOLD

\* a run saw an age equal to the threshold and left the course out, and a
\* run saw an older timestamp and listed the course
C5_Witness ==
    /\ \E u \in Users : \E c \in courses[u] :
          /\ Checked(u)
          /\ seen[u][c].moodle = Some(now[u] - MOODLE_UPDATE_THRESHOLD)
          /\ seen[u][c].exambase = Some(now[u] - EXAMBASE_UPDATE_THRESHOLD)
          /\ c \notin moodle_courses[u]
          /\ c \notin exambase_courses[u]
    /\ \E u \in Users : \E c \in courses[u] :
          /\ Checked(u)
          /\ seen[u][c].moodle = Some(now[u] - MOODLE_UPDATE_THRESHOLD - 1)
          /\ c \in moodle_courses[u]

NotEarlier(old, new) ==
    old # None => (new # None /\ Val(new) >= Val(old))

\* C6: for every (course, source) the stored freshness timestamp never
\* decreases, also when runs of different users overlap.
C6_TimestampsNeverDecrease ==
    [][\A c \in Courses :
          /\ NotEarlier(db[c].moodle, db'[c].moodle)
          /\ NotEarlier(db[c].exambase, db'[c].exambase)]_vars

\* C7 as stated: every timestamp a run writes equals the now its freshness
\* policy captured.
C7_WrittenEqualsPolicyNow ==
    \A u \in Users : \A w \in written[u] : w[3] = now[u]

\* C7 amended: every timestamp a run writes equals the one clock value
\* _update_timestamps read at its start in that run, after both scrapes
\* have joined; it is the same value for all courses and both sources.
C7_WrittenEqualsUpdateClock ==
    \A u \in Users :
        /\ \A w \in written[u] : w[3] = current_time[u]
        /\ written[u] # {} => (mpc[u] = "done" /\ epc[u] = "done")

\* a run has written both kinds of timestamp with a clock value later than
\* the now of its freshness policy
C7_Witness ==
    \E u \in Users :
        /\ WrittenFor(u, "moodle") # {}
        /\ WrittenFor(u, "exambase") # {}
        /\ current_time[u] > now[u]

\* every worker thread of the dispatcher has ended
AllWorkersEnded == \A w \in Workers : wpc[w] \in {"unused", "done"}

\* C8: a course-level failure, or the failure of every worker before it
\* takes a task, never leaves the dispatcher blocked on the task queue.
C8_NeverBlockedOnTaskQueue ==
    ~(dpc = "join" /\ unfinished_tasks > 0 /\ AllWorkersEnded)

\* C9: no task is taken or executed twice, and when the dispatch returns
\* every queued task was executed exactly once.
C9_EachTaskExactlyOnce ==
    /\ \A t \in Tasks : taken[t] <= 1 /\ executed[t] <= 1
    /\ dpc = "returned" => \A t \in queued : taken[t] = 1 /\ executed[t] = 1

\* a dispatch with several workers and several tasks has returned, and a
\* worker lost the race between its empty-check and its get
C9_Witness ==
    /\ dpc = "returned"
    /\ num_workers >= 2
    /\ Cardinality(queued) >= 2
    /\ empty_gets >= 1
    /\ \A t \in queued : executed[t] = 1

\* C10: a run that downloaded at least one new file has run the ingestion
\* pipeline over exactly the files it downloaded.
C10_IngestsNewFiles ==
    \A u \in Users :
        (pc[u] = "done" /\ newFiles[u] # {}) => ingested[u] = newFiles[u]

\* the call is a later call of the user, its previous call returned
\* success = true, and it has computed its due lists
RanAgain(u) == runs[u] >= 2 /\ prev[u].success /\ Checked(u)

\* the policy of this call runs within both thresholds of the previous one:
\* within 24 hours of the previous call, and no timestamp that call found
\* fresh has since passed its threshold
WithinThresholds(u) ==
    /\ now[u] - prev[u].now <= MOODLE_UPDATE_THRESHOLD
    /\ \A c \in courses[u] :
          /\ c \notin prev[u].moodle_courses =>
                \A t \in prev[u].seen[c].moodle : now[u] - t <= MOODLE_UPDATE_THRESHOLD
          /\ c \notin prev[u].exambase_courses =>
                \A t \in prev[u].seen[c].exambase : now[u] - t <= EXAMBASE_UPDATE_THRESHOLD

FoundNothingDue(u) ==
    Checked(u) /\ moodle_courses[u] = {} /\ exambase_courses[u] = {}

\* C12 as stated: a call that finds both due lists empty returns success =
\* true, having started no scrape thread, made no login to either source
\* and written no timestamp and no file.
C12_NoOpWithoutAnyLogin ==
    \A u \in Users : FoundNothingDue(u) =>
        /\ pc[u] = "done"
        /\ success[u]
        /\ mpc[u] = "idle"
        /\ epc[u] = "idle"
        /\ logins[u] = {}
        /\ written[u] = {}
        /\ newFiles[u] = {}

\* C12 amended: a call that finds both due lists empty returns success =
\* true, having started no scrape thread and written no timestamp and no
\* file; the only login it can have made is the course-list login of step 1,
\* made when the user had no course rows yet.
C12_NoOpAfterStepOne ==
    \A u \in Users : FoundNothingDue(u) =>
        /\ pc[u] = "done"
        /\ success[u]
        /\ mpc[u] = "idle"
        /\ epc[u] = "idle"
        /\ logins[u] \subseteq {"list"}
        /\ written[u] = {}
        /\ newFiles[u] = {}

\* a first call fetched the user's course list by logging in and then found
\* every course up to date
C12_Witness ==
    \E u \in Users :
        /\ FoundNothingDue(u)
        /\ runs[u] = 1
        /\ logins[u] = {"list"}
        /\ courses[u] # {}
        /\ pc[u] = "done"

\* the worker's session is in use on course pages or files
UsesSession(w) == wpc[w] \in {"get", "work"}

\* C13: a worker takes a task and fetches course pages only with a session
\* whose login succeeded.
C13_NoTaskWithoutLogin ==
    \A w \in Workers : UsesSession(w) => logged_in[w]

\* C14: the login lock is held by a worker only while that worker is in its
\* login step, never while it takes a task or scrapes a course.
C14_LockHeldOnlyDuringLogin ==
    /\ \A w \in Workers : login_lock = w => wpc[w] = "login"
    /\ login_lock \in {0} \cup Workers

\* one worker scrapes a course while another worker holds the lock for its
\* login, and two workers scrape at once
C14_Witness ==
    \E v, w \in Workers :
        /\ v # w
        /\ wpc[v] = "work"
        /\ task[v] # 0
        /\ wpc[w] = "login"
        /\ login_lock = w

\* C15: when the dispatch has returned, no browser created by a worker is
\* still open.
C15_AllSessionsClosedAtReturn ==
    dpc = "returned" => \A w \in Workers : scraper[w] \notin {"open", "orphan"}

\* scrape_all has joined its threads in this call
AfterJoin(u) == pc[u] \in {"step4", "timestamps"}

\* a step of one source thread leaves the other thread and its statistics
\* alone, and statistics once returned stay as they are
StatsKept(u) ==
    /\ mstats'[u] # mstats[u] => (epc'[u] = epc[u] /\ estats'[u] = estats[u])
    /\ estats'[u] # estats[u] => (mpc'[u] = mpc[u] /\ mstats'[u] = mstats[u])
    /\ mstats[u].returned => mstats'[u] = mstats[u]
    /\ estats[u].returned => estats'[u] = estats[u]

MoodleDownloading == fm_pc \in {"request", "writing"}

\* C17: within one Moodle course scrape no download is issued for a name
\* that, letter case ignored, was in the folder when the scrape started or
\* was saved earlier in the scrape, and no such name is saved twice.
C17_NoDownloadOfKnownName ==
    /\ MoodleDownloading =>
          /\ Lower(Head(download_links)) \notin existing_files
          /\ Occurrences(m_saved, Head(download_links)) = 0
    /\ \A f \in MoodleFiles : Occurrences(m_saved, f) <= 1

\* download_exam_papers has issued a download for its current row
ExamDownloading == fe_pc \in {"request", "writing"}

\* C18: within one call of download_exam_papers no download is issued for a
\* canonical name that, letter case ignored, was in the folder at the start
\* of the call or was saved earlier in the call; each name is saved at most
\* once and the count equals the number of names saved.
C18_NoDownloadOfKnownExam ==
    /\ ExamDownloading =>
          /\ ~ExamAlreadyExists(ExamFilename(course_code, Head(rows_todo)))
          /\ Occurrences(e_saved, ExamFilename(course_code, Head(rows_todo))) = 0
    /\ download_count = Cardinality({e_saved[i] : i \in DOMAIN e_saved})

\* the due courses of the exam scrape that carry the code
DueWithCode(code) == {c \in exam_filter : CourseCode(c) = code}

C20_OneWriterPerFolder ==
    ~(fm_pc = "writing" /\ fe_pc = "writing" /\ course_folder = MoodleFolder)

\* ---- the chunker -------------------------------------------------------------
ChunkLengths == [i \in DOMAIN result |-> Len(result[i].text)]

\* C21: every chunk returned by chunk() is at most int(max_tokens *
\* token_chars_ratio) characters long, also when the first sentence of a block
\* or a sentence after an undersized buffer is longer than that
C21_ChunksWithinMax ==
    c_pc = "done" =>
        \A i \in DOMAIN result : ChunkLengths[i] <= TokensToChars(max_tokens)

\* C22: at most one chunk of a document, and only the last one, is shorter
\* than int(min_tokens * token_chars_ratio) characters
C22_OnlyLastChunkShort ==
    c_pc = "done" =>
        \A i \in DOMAIN result :
            ChunkLengths[i] < TokensToChars(min_tokens) => i = Len(result)

MarkerCount == Cardinality({i \in DOMAIN text : IsMarker(text[i])})

\* the boundary between chunk i and chunk i + 1 lies on a marker line: chunk
\* i closes one block and chunk i + 1 opens the next with its marker
OnMarker(i) ==
    /\ result[i].block # result[i + 1].block
    /\ top_blocks[result[i + 1].block].kind # "DOC"
    /\ Head(result[i + 1].text) = Head(MarkerLine)

C24_NoTaskAfterCancel ==
    [][interrupted => taken' = taken]_vars

\* ---- the bootstrap of a new user ---------------------------------------------
Bootstrapped(u) ==
    /\ "list" \in logins[u]
    /\ pc[u] \notin {"idle", "bootstrap"}
    /\ fetched_list[u] # {}

\* C25: when a user without enrollments logs in and the LMS lists the
\* courses L, then after the bootstrap every course of L has a courses row,
\* (user, course) is enrolled for every course of L and the returned course
\* list holds every course of L
C25_BootstrapStoresAll ==
    \A u \in Users :
        Bootstrapped(u) =>
            /\ fetched_list[u] \subseteq course_rows
            /\ fetched_list[u] \subseteq user_courses[u]
            /\ fetched_list[u] \subseteq courses[u]

\* ---- the timestamp columns ----------------------------------------------------
OtherSource(s) == IF s = "moodle" THEN "exambase" ELSE "moodle"

\* C26: update_moodle_time(id, t) changes only the LMS timestamp of course
\* id: find_update_time_byid(id) then returns t and the previous exam
\* timestamp, and every other course keeps its timestamps; symmetrically for
\* update_exambase_time
C26_UpdateTimeFrame ==
    [][\A u \in Users : \A w \in written'[u] \ written[u] :
          /\ db'[w[1]][w[2]] = Some(w[3])
          /\ db'[w[1]][OtherSource(w[2])] = db[w[1]][OtherSource(w[2])]
          /\ \A d \in Courses \ {w[1]} : db'[d] = db[d]]_vars

C26_Witness ==
    \E u \in Users, t \in StartClock .. StartClock + MaxTicks :
        /\ <<1, "moodle", t>> \in written[u]
        /\ <<2, "exambase", t>> \in written[u]
        /\ db[1].moodle = Some(t)
        /\ db[1].exambase = Some(StartClock - EXAMBASE_UPDATE_THRESHOLD)
        /\ db[2].exambase = Some(t)

\* ---- a failed timestamp write ---------------------------------------------------
\* the timestamps step 4 of the run of u had to write
DueWrites(u) ==
    {<<c, "moodle">> : c \in KnownNames(u, moodle_courses[u])}
        \cup {<<c, "exambase">> : c \in KnownNames(u, exambase_courses[u])}

InSeq(f, q) == \E i \in DOMAIN q : q[i] = f

\* C28: a failed download does not abort the Moodle course: every candidate
\* is still skipped as a duplicate, saved or tried and failed; a failed file
\* is not counted and not added to the files downloaded in this run
C28_FailureDoesNotAbortCourse ==
    /\ downloaded_files_count = Len(m_saved)
    /\ downloaded_in_this_run \subseteq {Lower(m_saved[i]) : i \in DOMAIN m_saved}
    /\ fm_pc = "done" =>
          \A i \in DOMAIN m_candidates :
              \/ Lower(m_candidates[i]) \in existing_files
              \/ InSeq(m_candidates[i], m_saved)
              \/ InSeq(m_candidates[i], m_failed)
              \/ \E j \in 1 .. i - 1 : /\ Lower(m_candidates[j]) = Lower(m_candidates[i])
                                       /\ InSeq(m_candidates[j], m_saved)

C28_Witness ==
    /\ fm_pc = "done"
    /\ Len(m_candidates) = 2
    /\ m_failed = <<m_candidates[1]>>
    /\ m_saved = <<m_candidates[2]>>
    /\ downloaded_files_count = 1

\* ---- a failed file of the ingestion -------------------------------------------
\* C29: a file that meets a refused embedding batch or a count mismatch
\* between vectors and chunks leaves no vector in the store and is counted
\* in files_failed, and the files after it are still ingested
C29_FailedFileIsCountedAndLeavesNothing ==
    /\ \A f \in bad_files :
          /\ \A v \in store : v[1] # f
          /\ (f # file_no \/ g_pc \in {"loop", "done"}) => f \in failed_files
    /\ files_failed = Cardinality(failed_files)
    /\ g_pc = "done" => file_paths = <<>>

\* ---- C30 -------------------------------------------------------------------
\* the entries of browser_log that are login attempts
LoginEntries == {i \in DOMAIN browser_log : browser_log[i][1] \in {"login_ok", "login_failed"}}

\* C30: one call makes at most 3 login attempts and returns after the third
\* failure; a login attempt after the first comes right after a quit of the
\* browser held before and the creation of the browser it uses; a
\* successful attempt is the last thing the call does
C30_AtMostThreeAttempts ==
    /\ attempt <= 3
    /\ Cardinality(LoginEntries) <= 3
    /\ (attempt = 3 /\ browser_log # <<>>
          /\ browser_log[Len(browser_log)][1] = "login_failed"
          /\ browser_log[Len(browser_log)][2] = 3) => l_pc = "done"
    /\ \A i \in LoginEntries :
          /\ browser_log[i][2] > 1 =>
                /\ i > 2
                /\ browser_log[i - 1] = <<"new", browser_log[i][2], browser_log[i][3]>>
                /\ browser_log[i - 2][1] = "quit"
                /\ browser_log[i - 2][2] = browser_log[i][2]
                /\ browser_log[i - 2][3] # browser_log[i][3]
                /\ \A j \in 1 .. i - 3 : browser_log[j][1] # "new"
                                           \/ browser_log[j][3] # browser_log[i][3]
          /\ browser_log[i][1] = "login_ok" =>
                /\ i = Len(browser_log)
                /\ l_pc = "done"
                /\ login_ret = Some("ok")

\* the third attempt succeeded after two restarts
C30_Witness ==
    /\ l_pc = "done"
    /\ login_ret = Some("ok")
    /\ attempt = 3
    /\ Cardinality(LoginEntries) = 3

\* ---- C31 -------------------------------------------------------------------
\* C31: a worker that waits for the login lock eventually holds it, also
\* when the logins before it failed or raised
C31_WaiterEventuallyAcquires ==
    \A w \in Workers : (wpc[w] = "lock") ~> (wpc[w] = "login" /\ login_lock = w)

\* a worker holds the lock after the Exambase login of another worker
\* failed and raised out of the with block
C31_Witness ==
    \E w \in Workers, v \in Workers :
        /\ w # v
        /\ kind = "exambase"
        /\ scraper[v] = "orphan"
        /\ ~logged_in[v]
        /\ wpc[w] = "login"
        /\ login_lock = w

\* ---- C32 -------------------------------------------------------------------
\* C32: once a worker's session is closed its scraper holds no password,
\* and once every session of a returned dispatch is closed the downloader
\* holds none either
C32_NoPasswordAfterClose ==
    /\ \A w \in Workers : scraper[w] = "closed" => ~scraper_password[w]
    /\ (dpc = "returned" /\ \A w \in 1 .. num_workers : wpc[w] = "done" /\ scraper[w] = "closed")
          => ~downloader_password

\* ---- C33 -------------------------------------------------------------------
\* C33: on a cold start neither source thread fails because the other one
\* created a folder first
C33_ConcurrentCreationNeverFails ==
    \A t \in MkThreads : mk_result[t] # "failed"

\* ---- C34 -------------------------------------------------------------------
\* C34: a file without its whole content is on disk only while it is being
\* written: a download that failed after the file was opened leaves nothing
\* at the target path
C34_FailedDownloadLeavesNoFile ==
    \A p \in incomplete :
        \/ /\ fm_pc = "writing"
           /\ p = <<MoodleFolder, Head(download_links)>>
        \/ /\ fe_pc = "writing"
           /\ p = <<course_folder, ExamFilename(course_code, Head(rows_todo))>>

\* ---- C35 -------------------------------------------------------------------
\* the files downloaded by the workers 1 .. n
RECURSIVE DownloadedBy(_)
DownloadedBy(n) == IF n = 0 THEN 0 ELSE downloaded_count[n] + DownloadedBy(n - 1)

\* C35: the total a dispatch returns is the sum of what its workers
\* downloaded
C35_TotalIsSumOfWorkers ==
    dpc = "returned" => total_downloads = DownloadedBy(num_workers)

\* ---- C36 -------------------------------------------------------------------
\* C36: when both source threads have returned, every browser created
\* outside the worker pool has been closed
C36_OutsideContextsClosed ==
    (\A t \in MkThreads : x_pc[t] = "returned") => contexts = {}

\* ---- C37 -------------------------------------------------------------------
\* C37: under every accepted configuration each iteration of the hard-split
\* loop moves start forward
C37_HardSplitAdvances ==
    [][hs_iter' # hs_iter => hs_start' > hs_start]_vars

\* ---- C38 -------------------------------------------------------------------
\* C38: the folder name of a downloaded file is looked up to the id of the
\* course the file was downloaded for
C38_FolderMapsBackToCourse ==
    lk_pc = "done" => lk_id = Some(lk_course)

====
